---------------------------- MODULE Spec2Model ----------------------------
(***************************************************************************)
(* Model of the parameter-space-exploration engine of tvb-widgets          *)
(* (tvbwidgets/core/pse/parameters.py): the configuration sequence SimSeq, *)
(* the grid built by launch_local_param, the local (JobLibExec) and the    *)
(* distributed (DaskExec) execution strategies with their checkpoints and  *)
(* progress reporting, and the reduction SaveDataToDisk.                   *)
(***************************************************************************)
EXTENDS Integers, Sequences, FiniteSets, TLC

(***************************************************************************)
(* Bounds of the model.                                                    *)
(***************************************************************************)
\* longest values1 and longest values2 of the grids of SpecSeq
MaxLen1 == 2
MaxLen2 == 3
\* largest element drawn for an axis value in SpecSeq
MaxVal == 2
\* largest number of grid points (m * n) of a sweep of Spec
MaxPoints == 3
\* largest number of requested metrics of a sweep
MaxMetrics == 2
\* number of workers that run grid points at the same time (n_jobs)
NThreads == 2
\* largest number of metric evaluations that raise in one behaviour
MaxRaises == 1
\* number of times the sweep is called on the same checkpoint directory
MaxRuns == 2
\* largest number of grid points of a sweep that is called again (SpecResume)
ResumePoints == 2
\* largest grid (points) of a sweep whose progress reports can fail
ProgressPoints == 2
\* longest axis of a grid handed to the Reduction step alone (SpecLabel)
MaxAxis == 2
\* how many characters a connectivity title can be longer than the cut
TitleExtra == 2
\* the most channels a data set of the widget has
MaxChannels == 3
\* TimeSeriesWidget.no_channels (30 at line 365), scaled to the data sets above
MaxShown == 2

VARIABLES
    param1,        \* launch_local_param: name of the first swept attribute
    param2,        \* launch_local_param: name of the second swept attribute
    x_values,      \* launch_local_param: values of the first axis
    y_values,      \* launch_local_param: values of the second axis
    template,      \* SimSeq.template: the configured simulator (attribute -> value)
    values,        \* SimSeq.values: one [v1, v2] pair per grid point
    pos,           \* SimSeq.pos (NoPos until __iter__ has run)
    yielded,       \* the objects the current iterator has returned, in order
    stops,         \* number of StopIteration raised by the current iterator
    strategy,      \* "local" (JobLibExec) or "dask" (DaskExec)
    nmetrics,      \* len(post.metrics): the number of requested metrics
    checkpoint_dir,   \* JobLibExec.checkpoint_dir: NoDir (None) or a directory name
    update_progress,  \* JobLibExec.update_progress: "none" (None) or "callback"
    dirExists,     \* disk: the checkpoint directory exists
    metaFile,      \* disk: params.txt / param_vals.npy of the checkpoint directory
    records,       \* disk: <i>.npy of the checkpoint directory, per grid index
    statusFile,    \* disk: the characters (digits) of progress_bar_status.txt
    pc,            \* per grid index: where its job is
    jobSim,        \* per grid index: the configuration handed to its job
    result,        \* per grid index: the job's local variable result
    status,        \* per grid index: the job's local variable status
    returned,      \* per grid index: the value the job returned
    jobs,          \* grid indices in the order their tasks were handed to the pool
    completed,     \* grid indices in the order their jobs completed
    lockHolder,    \* progress_file_lock: the job holding it, or NoJob
    phase,         \* "idle", "running", "pending", "finished" or "aborted"
    failure,       \* the exception that left the sweep call: "none", "backend", "metric"
    metrics_,      \* the sequence of vectors handed to the Reduction step
    container,     \* the PSEData stored by SaveDataToDisk, or NoContainer
    runs,          \* number of sweep calls started
    executed,      \* this call: indices for which the backend was executed
    evaluated,     \* this call: indices whose metrics were evaluated
    saved,         \* this call: indices whose checkpoint record was written
    hit,           \* this call: indices whose job found a checkpoint record
    raised,        \* this call: per index, the metrics that raised
    raises,        \* number of metric evaluations that raised, over all calls
    reports,       \* this call: per index, the progress reports it caused
    progressCalls, \* this call: invocations of the update_progress callback
    startRecords,  \* indices that had a record when this call started
    prevHanded,    \* what the previous call handed to the Reduction step
    prevCompleted, \* indices whose jobs had returned when the previous call ended
    reduction,     \* PostProcess.reduction: "SaveDataToDisk" or NoReduction (None)
    fromMain,      \* the sweep is launched by the __main__ block, lines 393-414
    heap,          \* per mutable object: the clone whose configure() wrote it last (0: none)
    resetFrom,     \* the iteration the latest __iter__ broke off: "none" before any
                   \* __iter__, else "unused", "partial" or "complete"
    progressErrors,   \* this call: indices whose progress report failed and was logged
    metaWrites,    \* number of times the checkpoint metadata was written
    reductions,    \* this call: invocations of post.reduction
    writes,        \* this call: per index, how often its checkpoint record was written
    tokenAvail,    \* launcher environment: get_current_token() finds a token
    registryUp,    \* launcher environment: the registry answers site_urls
    siteListed,    \* launcher environment: the registry lists config.site
    authOk,        \* launcher environment: the site accepts the token
    homeFound,     \* launcher environment: a storage mounted at HOME/ exists
    prepStatus,    \* launcher environment: final status of an environment job
    flowStatus,    \* launcher environment: final status of a workflow job
    outputListed,  \* launcher environment: the working directory lists file_name
    envState,      \* remote storage: "no_dir", "no_env", "stale" or "ready"
    hpcPc,         \* where HPCLaunch.submit_job is
    submitted,     \* the jobs handed to client.new_job, in order
    polled,        \* the jobs whose poll() has returned
    downloads,     \* number of files downloaded to the local directory
    hpcErrors,     \* what LOGGER.error has reported
    hpcRaised,     \* the exception that left submit_job, or "none"
    argv,          \* sys.argv of the remote entry point (<<>> before the job exists)
    mainPc,        \* the remote entry point: "idle", "running" or "IndexError"
    bound,         \* the names the entry point has bound, with the argument each got
    handles,       \* number of iterators obtained from the one SimSeq (iter(seq))
    got,           \* per iterator: the grid indices its next-calls returned, in order
    mark,          \* what the first iterator had received when the second was obtained
    stopped,       \* the iterators whose next-call raised StopIteration
    tsData,        \* TimeSeriesWidget.data: NoData (None) or the data set loaded
    tsFields,      \* TimeSeriesWidget.sample_freq, .ch_names and .raw
    checkboxes,    \* TimeSeriesWidget.checkboxes: channel label -> checked
    fig,           \* fig.mne of the plot: ch_names, ch_start, n_channels, picks
    tsRaised,      \* the exception the latest widget operation raised, or "none"
    tsOp,          \* the latest widget operation
    tsPrev,        \* what the widget held before the latest add, and the data offered
    navigated      \* the plot was scrolled or resized since it was drawn

gridVars == <<param1, param2, x_values, y_values, template, values>>

iterVars == <<pos, yielded, stops>>

cfgVars == <<strategy, nmetrics, checkpoint_dir, update_progress>>

diskVars == <<dirExists, metaFile, records, statusFile>>

jobVars == <<pc, jobSim, result, status, returned>>

poolVars == <<jobs, completed, lockHolder, phase, failure, metrics_, container>>

histVars == <<runs, executed, evaluated, saved, hit, raised, raises, reports, progressCalls,
              startRecords, prevHanded, prevCompleted>>

extVars == <<reduction, fromMain, heap, resetFrom, progressErrors, metaWrites, reductions,
             writes>>

(* The unit launcher and the remote entry point it starts. *)
hpcEnv == <<tokenAvail, registryUp, siteListed, authOk, homeFound, prepStatus, flowStatus,
            outputListed>>

hpcVars == <<hpcEnv, envState, hpcPc, submitted, polled, downloads, hpcErrors, hpcRaised, argv,
             mainPc, bound>>

(* Two consumers of one SimSeq. *)
shareVars == <<handles, got, mark, stopped>>

(* The time-series widget. *)
tsVars == <<tsData, tsFields, checkboxes, fig, tsRaised, tsOp, tsPrev, navigated>>

sideVars == <<hpcVars, shareVars, tsVars>>

sweepVars == <<gridVars, iterVars, cfgVars, diskVars, jobVars, poolVars, histVars, extVars>>

vars == <<sweepVars, sideVars>>

(***************************************************************************)
(* Values.  A swept value is either handed on as it is or wrapped in a     *)
(* one-element array: [arr |-> TRUE, v |-> e] is np.array([e]).            *)
(***************************************************************************)
ParamNames == {"conduction_speed", "connectivity", "coupling.a"}

Plain(e) == [arr |-> FALSE, v |-> e]

Wrapped(e) == [arr |-> TRUE, v |-> e]

\* the value an attribute of the template has before any sweep sets it
TemplateValue == Plain(0)

NoPos == -1

\* launch_local_param, lines 369-376: el_value for one axis element
ElValue(param, elem) ==
    IF param = "conduction_speed" \/ param = "connectivity"
    THEN Plain(elem)
    ELSE Wrapped(elem)

\* launch_local_param, lines 366-377: the inner loop over y_values for one elem1
RECURSIVE InnerLoop(_, _, _, _, _)
InnerLoop(p1, p2, elem1, ys, j) ==
    IF j > Len(ys) THEN <<>>
    ELSE <<  <<ElValue(p1, elem1), ElValue(p2, ys[j])>>  >>
         \o InnerLoop(p1, p2, elem1, ys, j + 1)

\* launch_local_param, lines 366-377: the outer loop over x_values
RECURSIVE OuterLoop(_, _, _, _, _)
OuterLoop(p1, p2, xs, ys, i) ==
    IF i > Len(xs) THEN <<>>
    ELSE InnerLoop(p1, p2, xs[i], ys, 1) \o OuterLoop(p1, p2, xs, ys, i + 1)

\* a plausible slip: the loops nested the other way round (values1 fastest)
RECURSIVE InnerLoopSwapped(_, _, _, _, _)
InnerLoopSwapped(p1, p2, xs, elem2, i) ==
    IF i > Len(xs) THEN <<>>
    ELSE <<  <<ElValue(p1, xs[i]), ElValue(p2, elem2)>>  >>
         \o InnerLoopSwapped(p1, p2, xs, elem2, i + 1)

RECURSIVE OuterLoopSwapped(_, _, _, _, _)
OuterLoopSwapped(p1, p2, xs, ys, j) ==
    IF j > Len(ys) THEN <<>>
    ELSE InnerLoopSwapped(p1, p2, xs, ys[j], 1) \o OuterLoopSwapped(p1, p2, xs, ys, j + 1)

InputValuesSwapped(p1, p2, xs, ys) == OuterLoopSwapped(p1, p2, xs, ys, 1)

InputValues(p1, p2, xs, ys) == OuterLoop(p1, p2, xs, ys, 1)

(***************************************************************************)
(* SimSeq.                                                                 *)
(***************************************************************************)
\* SimSeq.__next__, lines 75-81: deepcopy(template), then obj.<key> = val for
\* each (key, val) of zip(params, values[pos]), in this order (getters are None)
SimSeqObject(tmpl, p1, p2, pair) ==
    [[tmpl EXCEPT ![p1] = pair[1]] EXCEPT ![p2] = pair[2]]

\* SimSeq.__next__, line 73: the position is past the end
SimSeqExhausted(p, vals) == p >= Len(vals)

\* all sequences over S of length 0..n
SeqsUpTo(S, n) == UNION {[1..k -> S] : k \in 0..n}

(***************************************************************************)
(* Values of the sweep engine.                                             *)
(***************************************************************************)
NoDir == "None"

NoJob == -1

\* no vector: Python's None for result, an absent <i>.npy on disk
NoVec == <<>>

NoMeta == <<>>

NoContainer == <<>>

\* np.nan, line 285
NaN == -1

\* the grid indices of the current sequence
Idx == 0..(Len(values) - 1)

\* No launcher exists: nothing is submitted, polled, downloaded or started.
HpcOff ==
    /\ tokenAvail = TRUE
    /\ registryUp = TRUE
    /\ siteListed = TRUE
    /\ authOk = TRUE
    /\ homeFound = TRUE
    /\ prepStatus = "SUCCESSFUL"
    /\ flowStatus = "SUCCESSFUL"
    /\ outputListed = TRUE
    /\ envState = "ready"
    /\ hpcPc = "off"
    /\ submitted = <<>>
    /\ polled = {}
    /\ downloads = 0
    /\ hpcErrors = {}
    /\ hpcRaised = "none"
    /\ argv = <<>>
    /\ mainPc = "idle"
    /\ bound = <<>>

\* The sequence has the one consumer that iterVars describe.
ShareOff ==
    /\ handles = 0
    /\ got = <<>>
    /\ mark = 0
    /\ stopped = {}

\* self.data = None, line 360
NoData == <<>>

\* plt/mne: no figure has been drawn
NoFig == <<>>

\* No widget exists.
TsOff ==
    /\ tsData = NoData
    /\ tsFields = <<>>
    /\ checkboxes = <<>>
    /\ fig = NoFig
    /\ tsRaised = "none"
    /\ tsOp = "none"
    /\ tsPrev = <<>>
    /\ navigated = FALSE

\* Only the sweep runs: the other components are absent.
SideOff == HpcOff /\ ShareOff /\ TsOff

\* the sweep state while only the sequence is exercised (SpecSeq)
SweepOff ==
    /\ strategy = "local"
    /\ nmetrics = 1
    /\ checkpoint_dir = NoDir
    /\ update_progress = "none"
    /\ dirExists = FALSE
    /\ metaFile = NoMeta
    /\ records = <<>>
    /\ statusFile = <<0>>
    /\ pc = <<>>
    /\ jobSim = <<>>
    /\ result = <<>>
    /\ status = <<>>
    /\ returned = <<>>
    /\ jobs = <<>>
    /\ completed = <<>>
    /\ lockHolder = NoJob
    /\ phase = "idle"
    /\ failure = "none"
    /\ metrics_ = <<>>
    /\ container = NoContainer
    /\ runs = 0
    /\ executed = {}
    /\ evaluated = {}
    /\ saved = {}
    /\ hit = {}
    /\ raised = <<>>
    /\ raises = 0
    /\ reports = <<>>
    /\ progressCalls = 0
    /\ startRecords = {}
    /\ prevHanded = <<>>
    /\ prevCompleted = {}
    /\ reduction = "SaveDataToDisk"
    /\ fromMain = TRUE
    /\ progressErrors = {}
    /\ metaWrites = 0
    /\ reductions = 0
    /\ writes = <<>>

SeqInit ==
    /\ SweepOff
    /\ SideOff
    /\ heap = <<>>
    /\ resetFrom = "none"
    /\ param1 \in ParamNames
    /\ param2 \in ParamNames \ {param1}
    /\ x_values \in SeqsUpTo(1..MaxVal, MaxLen1)
    /\ y_values \in SeqsUpTo(1..MaxVal, MaxLen2)
    /\ template = [a \in ParamNames |-> TemplateValue]
    /\ values = InputValues(param1, param2, x_values, y_values)
    /\ pos = NoPos
    /\ yielded = <<>>
    /\ stops = 0

\* an __iter__ that leaves the position of a sequence in use where it is
IterStartKept == IF pos = NoPos THEN 0 ELSE pos

\* self.pos = 0, line 62
IterStart == 0

\* SimSeq.__iter__, lines 61-63
SimSeq_iter ==
    /\ pos' = IterStart
    /\ resetFrom' = IF stops = 1 THEN "complete"
                    ELSE IF pos \in {NoPos, 0} THEN "unused" ELSE "partial"
    /\ yielded' = <<>>
    /\ stops' = 0
    /\ UNCHANGED <<gridVars, sideVars, cfgVars, diskVars, jobVars, poolVars, histVars, reduction,
                   fromMain, heap, progressErrors, metaWrites, reductions, writes>>

\* SimSeq.__next__, lines 72-83, when it returns an object
SimSeq_next ==
    /\ pos # NoPos
    /\ ~SimSeqExhausted(pos, values)
    /\ yielded' = Append(yielded, SimSeqObject(template, param1, param2, values[pos + 1]))
    /\ pos' = pos + 1
    /\ UNCHANGED <<stops, gridVars, sideVars, extVars, cfgVars, diskVars, jobVars, poolVars,
                   histVars>>

\* SimSeq.__next__, lines 73-74, when it raises StopIteration
SimSeq_stop ==
    /\ pos # NoPos
    /\ SimSeqExhausted(pos, values)
    /\ stops = 0
    /\ stops' = 1
    /\ UNCHANGED <<pos, yielded, gridVars, sideVars, extVars, cfgVars, diskVars, jobVars,
                   poolVars, histVars>>

SeqNext == SimSeq_iter \/ SimSeq_next \/ SimSeq_stop

SpecSeq == SeqInit /\ [][SeqNext]_vars

(***************************************************************************)
(* Two iterators obtained from one SimSeq.  __iter__ returns self (line    *)
(* 63): both iterators are the sequence object, and a next-call on either  *)
(* is SimSeq.__next__ on the one position.                                 *)
(***************************************************************************)
\* the grids m x n of at most MaxPoints points
GridShapes == {sh \in (1..MaxPoints) \X (1..MaxPoints) : sh[1] * sh[2] <= MaxPoints}

ShareInit ==
    /\ SweepOff
    /\ HpcOff
    /\ TsOff
    /\ heap = <<>>
    /\ resetFrom = "none"
    /\ param1 = "conduction_speed"
    /\ param2 = "coupling.a"
    /\ \E sh \in GridShapes :
          /\ x_values = [i \in 1..sh[1] |-> i]
          /\ y_values = [j \in 1..sh[2] |-> 10 * j]
    /\ template = [a \in ParamNames |-> TemplateValue]
    /\ values = InputValues(param1, param2, x_values, y_values)
    /\ pos = NoPos
    /\ yielded = <<>>
    /\ stops = 0
    /\ handles = 0
    /\ got = [h \in 1..2 |-> <<>>]
    /\ mark = 0
    /\ stopped = {}

\* iter(seq), lines 61-63: the position is reset and the sequence itself returned
Share_iter ==
    /\ handles < 2
    /\ handles' = handles + 1
    /\ pos' = IterStart
    /\ mark' = Len(got[1])
    /\ resetFrom' = IF pos \in {NoPos, 0} THEN "unused" ELSE "partial"
    /\ yielded' = <<>>
    /\ stops' = 0
    /\ stopped' = {}
    /\ UNCHANGED <<got, hpcVars, tsVars, gridVars, cfgVars, diskVars, jobVars, poolVars, histVars,
                   reduction, fromMain, heap, progressErrors, metaWrites, reductions, writes>>

\* next(it) on iterator h, lines 72-83, when it returns an object
Share_next(h) ==
    /\ h \in 1..handles
    /\ ~SimSeqExhausted(pos, values)
    /\ got' = [got EXCEPT ![h] = Append(@, pos)]
    /\ yielded' = Append(yielded, SimSeqObject(template, param1, param2, values[pos + 1]))
    /\ pos' = pos + 1
    /\ UNCHANGED <<handles, mark, stopped, stops, hpcVars, tsVars, gridVars, extVars, cfgVars,
                   diskVars, jobVars, poolVars, histVars>>

\* next(it) on iterator h, lines 73-74, when it raises StopIteration
Share_stop(h) ==
    /\ h \in 1..handles
    /\ SimSeqExhausted(pos, values)
    /\ h \notin stopped
    /\ stopped' = stopped \cup {h}
    /\ stops' = 1
    /\ UNCHANGED <<handles, got, mark, pos, yielded, hpcVars, tsVars, gridVars, extVars, cfgVars,
                   diskVars, jobVars, poolVars, histVars>>

ShareNext ==
    \/ Share_iter
    \/ \E h \in 1..2 : Share_next(h)
    \/ \E h \in 1..2 : Share_stop(h)

SpecShare == ShareInit /\ [][ShareNext]_vars

(***************************************************************************)
(* The objects behind the configurations: which object an attribute of the *)
(* template or of a yielded configuration refers to, and who wrote it.     *)
(***************************************************************************)
\* the object the template holds for attribute a (SimSeq.template, line 52)
TemplateRef(a) == [kind |-> "template", n |-> 0, attr |-> a]

\* deepcopy(self.template), line 75: the copy of that object made for the p-th
\* configuration
CopyRef(p, a) == [kind |-> "deepcopy", n |-> p, attr |-> a]

\* el_value = elem, lines 369-370 and 373-374: the i-th element of the axis list
AxisRef(axis, i, a) == [kind |-> axis, n |-> i, attr |-> a]

\* np.array([elem]), lines 372 and 376: an array made for the p-th pair alone
PairRef(p, a) == [kind |-> "input_values", n |-> p, attr |-> a]

\* the object values[p - 1] holds for the swept attribute a (lines 367-377): the
\* pair is that of row (p - 1) \div n and column (p - 1) % n
ValueRef(p, a) ==
    LET n == Len(y_values)
        slot == IF a = param1 THEN 1 ELSE 2
    IN  IF values[p][slot].arr
        THEN PairRef(p, a)
        ELSE IF a = param1
             THEN AxisRef("x_values", ((p - 1) \div n) + 1, a)
             ELSE AxisRef("y_values", ((p - 1) % n) + 1, a)

\* the object attribute a of the p-th configuration refers to, lines 75-80: the
\* deep copy, unless obj.<a> = val has put the value of the grid point there
CloneRef(p, a) == IF a \in {param1, param2} THEN ValueRef(p, a) ELSE CopyRef(p, a)

\* the attribute holds an object that can be written (a Connectivity, an
\* array); conduction_speed is a float
Mutable(a) == a # "conduction_speed"

AllRefs ==
    LET P == 1..Len(values)
        L == 1..(Len(x_values) + Len(y_values))
    IN  {TemplateRef(a) : a \in ParamNames}
        \cup {CopyRef(p, a) : p \in P, a \in ParamNames}
        \cup {PairRef(p, a) : p \in P, a \in ParamNames}
        \cup {AxisRef(ax, i, a) : ax \in {"x_values", "y_values"}, i \in L, a \in ParamNames}

CloneInit ==
    /\ SweepOff
    /\ SideOff
    /\ param1 \in ParamNames
    /\ param2 \in ParamNames \ {param1}
    /\ \E sh \in GridShapes :
          /\ x_values = [i \in 1..sh[1] |-> i]
          /\ y_values = [j \in 1..sh[2] |-> 10 * j]
    /\ template = [a \in ParamNames |-> TemplateValue]
    /\ values = InputValues(param1, param2, x_values, y_values)
    /\ pos = NoPos
    /\ yielded = <<>>
    /\ stops = 0
    /\ heap = [r \in AllRefs |-> 0]
    /\ resetFrom = "none"

\* sim.configure(), lines 277 and 279, on the p-th configuration the iterator
\* has handed out: the simulator writes an object it holds
Clone_configure(p) ==
    /\ p \in 1..Len(yielded)
    /\ \E a \in ParamNames :
          /\ Mutable(a)
          /\ heap' = [heap EXCEPT ![CloneRef(p, a)] = p]
    /\ UNCHANGED <<gridVars, sideVars, iterVars, cfgVars, diskVars, jobVars, poolVars, histVars,
                   reduction, fromMain, resetFrom, progressErrors, metaWrites, reductions,
                   writes>>

CloneNext ==
    \/ SimSeq_iter
    \/ SimSeq_next
    \/ SimSeq_stop
    \/ \E p \in 1..Len(values) : Clone_configure(p)

SpecClone == CloneInit /\ [][CloneNext]_vars

(***************************************************************************)
(* The progress status file: text, read with int() and rewritten from      *)
(* offset 0 without truncation.                                            *)
(***************************************************************************)
\* str(status), line 261: the decimal digits of a natural number
RECURSIVE Str(_)
Str(k) == IF k < 10 THEN <<k>> ELSE Append(Str(k \div 10), k % 10)

\* int(f.read()), line 258: the number a sequence of digits denotes
RECURSIVE ParseInt(_)
ParseInt(digits) ==
    IF Len(digits) = 0 THEN 0
    ELSE 10 * ParseInt(SubSeq(digits, 1, Len(digits) - 1)) + digits[Len(digits)]

\* a write that adds the text at the end of the file
WriteAppended(file, text) == file \o text

\* f.seek(0); f.write(text), lines 260-261: overwrite from offset 0, keep the rest
WriteAt0(file, text) == text \o SubSeq(file, Len(text) + 1, Len(file))

\* the lock can be taken without waiting for its holder
LockFreeNoLock(holder) == TRUE

\* with self.progress_file_lock, line 254: the lock can be taken
LockFree(holder) == holder = NoJob

\* the status file when open(..., "r+"), line 255, finds no file
NoFile == <<-1>>

\* int(f.read()), line 258, succeeds: the text is a non-empty run of digits
IsInteger(text) == Len(text) > 0 /\ \A p \in 1..Len(text) : text[p] \in 0..9

\* what lines 255-258 raise on a status file that is no integer
StatusError(file) == IF file = NoFile THEN "FileNotFoundError" ELSE "ValueError"

\* an except clause that would catch the bad integer only
MonitorCatchesValueError(exc) == exc = "ValueError"

\* except Exception, line 262: the exceptions of the body that the clause catches
MonitorCatches(exc) == exc \in {"FileNotFoundError", "ValueError", "Exception"}

(***************************************************************************)
(* Metrics, checkpoints, the pool's output and the reduction.              *)
(***************************************************************************)
\* m(t, y) for the k-th requested metric on the run of configuration sim: the
\* backend and the metrics are functions of the configuration
MetricValue(k, sim) == 1000 * k + 100 * sim[param1].v + sim[param2].v

\* a vector that leaves out the slots of the metrics that raised
RECURSIVE EvalMetricsDropFailed(_, _, _)
EvalMetricsDropFailed(sim, K, F) ==
    IF K = 0 THEN <<>>
    ELSE IF K \in F THEN EvalMetricsDropFailed(sim, K - 1, F)
         ELSE Append(EvalMetricsDropFailed(sim, K - 1, F), MetricValue(K, sim))

\* JobLibExec job, lines 280-286: one slot per metric, np.nan where it raised (F)
EvalMetrics(sim, K, F) ==
    [k \in 1..K |-> IF k \in F THEN NaN ELSE MetricValue(k, sim)]

\* the job recomputes whatever the checkpoint holds
NeedsComputeAlways(res) == TRUE

\* if result is None, lines 274 and 323
NeedsCompute(res) == res = NoVec

\* a load that never finds the file of index i
LoadCheckpointMissing(dir, exists, recs, i) == NoVec

\* _load_checkpoint, lines 230-237 and 312-319
LoadCheckpoint(dir, exists, recs, i) ==
    IF dir = NoDir THEN NoVec
    ELSE IF ~exists \/ recs[i] = NoVec THEN NoVec
    ELSE recs[i]

\* a save that writes nothing
SaveCheckpointNothing(dir, recs, i, res) == recs

\* _checkpoint, lines 226-228 and 308-310
SaveCheckpoint(dir, recs, i, res) ==
    IF dir # NoDir THEN [recs EXCEPT ![i] = res] ELSE recs

\* results listed in the order the jobs completed
PoolOutputByCompletion(order, done, rets) == [p \in 1..Len(done) |-> rets[done[p]]]

\* pool(...), line 292, and client.map / submit, lines 336-339: the results of
\* the tasks in the order the tasks were handed over
PoolOutput(order, done, rets) == [p \in 1..Len(order) |-> rets[order[p]]]

\* np.array(metric_data), line 182, flattened row-major: vector after vector
RECURSIVE Flatten(_)
Flatten(vecs) ==
    IF Len(vecs) = 0 THEN <<>> ELSE Head(vecs) \o Flatten(Tail(vecs))

\* reshape((len(metrics), len(x_values), len(y_values))), line 199: the flat
\* data cut row-major into [metric][x][y]
Reshape(flat, K, m, n) ==
    [k \in 1..K |-> [i \in 1..m |-> [j \in 1..n |->
        flat[(k - 1) * m * n + (i - 1) * n + (j - 1) + 1]]]]

\* the 25 of val.title[0:25], lines 188 and 193
TitleCut == 25

\* the code of the character "."
Dot == 46

\* the marker "..." of lines 188 and 193
Ellipsis == <<Dot, Dot, Dot>>

\* a label cut one character early
AxisLabelShort(title) ==
    SubSeq(title, 1, IF Len(title) < TitleCut - 1 THEN Len(title) ELSE TitleCut - 1)
        \o Ellipsis

\* val.title[0:25] + "...", lines 188 and 193: a slice ends at the end of a
\* shorter title; a title is a sequence of character codes
AxisLabel(title) ==
    SubSeq(title, 1, IF Len(title) < TitleCut THEN Len(title) ELSE TitleCut) \o Ellipsis

\* lines 187-196: what is stored for the values of one axis; a Connectivity
\* value is given by its title
AxisValue(param, vals) ==
    IF param = "connectivity"
    THEN [i \in 1..Len(vals) |-> AxisLabel(vals[i])]
    ELSE vals

\* SaveDataToDisk.__call__, lines 181-204
SaveDataToDisk(p1, p2, xs, ys, K, metric_data) ==
    [x_title |-> p1, y_title |-> p2,
     x_value |-> AxisValue(p1, xs), y_value |-> AxisValue(p2, ys),
     metrics_names |-> K,
     results |-> Reshape(Flatten(metric_data), K, Len(xs), Len(ys))]

(***************************************************************************)
(* The sweep: initial states.                                              *)
(***************************************************************************)

\* what an earlier sweep (one metric, another one-point grid) left in a directory
EarlierMeta == [params |-> <<"conduction_speed", "coupling.a">>,
                vals |-> << <<Plain(9), Wrapped(9)>> >>]

EarlierVec == <<5>>

\* the grid, the executor and the disk before a sweep call
InitSweep ==
    /\ \E sh \in GridShapes :
          /\ x_values = [i \in 1..sh[1] |-> i]
          /\ y_values = [j \in 1..sh[2] |-> 10 * j]
    /\ param1 = "conduction_speed"
    /\ param2 = "coupling.a"
    /\ template = [a \in ParamNames |-> TemplateValue]
    /\ values = InputValues(param1, param2, x_values, y_values)
    /\ pos = NoPos
    /\ yielded = <<>>
    /\ stops = 0
    /\ strategy \in {"local", "dask"}
    /\ nmetrics \in 1..MaxMetrics
    /\ checkpoint_dir \in {NoDir, "ckpt"}
    /\ update_progress \in (IF strategy = "local" THEN {"none", "callback"} ELSE {"none"})
    /\ dirExists \in (IF checkpoint_dir = NoDir THEN {FALSE} ELSE BOOLEAN)
    /\ metaFile = IF dirExists THEN EarlierMeta ELSE NoMeta
    /\ records \in (IF dirExists
                    THEN {[i \in Idx |-> IF i = 0 THEN v ELSE NoVec] : v \in {NoVec, EarlierVec}}
                    ELSE {[i \in Idx |-> NoVec]})
    /\ pc = [i \in Idx |-> "idle"]
    /\ jobSim = [i \in Idx |-> template]
    /\ result = [i \in Idx |-> NoVec]
    /\ status = [i \in Idx |-> 0]
    /\ returned = [i \in Idx |-> NoVec]
    /\ jobs = <<>>
    /\ completed = <<>>
    /\ lockHolder = NoJob
    /\ phase = "idle"
    /\ failure = "none"
    /\ metrics_ = <<>>
    /\ container = NoContainer
    /\ runs = 0
    /\ executed = {}
    /\ evaluated = {}
    /\ saved = {}
    /\ hit = {}
    /\ raised = [i \in Idx |-> {}]
    /\ raises = 0
    /\ reports = [i \in Idx |-> 0]
    /\ progressCalls = 0
    /\ startRecords = {}
    /\ prevHanded = <<>>
    /\ prevCompleted = {}
    /\ heap = <<>>
    /\ resetFrom = "none"
    /\ progressErrors = {}
    /\ metaWrites = 0
    /\ reductions = 0
    /\ writes = [i \in Idx |-> 0]
    /\ SideOff

\* a sweep as launch_local_param and the entry point set it up: the Reduction
\* step is SaveDataToDisk (line 387), the status file holds "0" (lines 410-411)
Init ==
    /\ InitSweep
    /\ reduction = "SaveDataToDisk"
    /\ fromMain = TRUE
    /\ statusFile = <<0>>

(***************************************************************************)
(* The sweep: the call.                                                    *)
(***************************************************************************)
Range(f) == {f[x] : x \in DOMAIN f}

\* a job that holds a worker
Active(i) == pc[i] \in {"load", "run", "checkpoint", "monitor", "write"}

FreeWorker == Cardinality({i \in Idx : Active(i)}) < NThreads

\* np.savetxt / np.save of lines 246-247: the metadata of the current grid
GridMeta == [params |-> <<param1, param2>>, vals |-> values]

\* an init that writes the metadata on every call
InitCheckpointAlways(dir, exists, meta, current) == dir # NoDir

\* an init that brings differing metadata of an existing directory up to date
InitCheckpointRevalidates(dir, exists, meta, current) ==
    dir # NoDir /\ (~exists \/ meta # current)

\* _init_checkpoint, lines 240-247: the directory is made and the metadata
\* written when the directory is configured and absent; the stored metadata
\* is not read (the consistency check of line 243 is a TODO)
InitCheckpointWrites(dir, exists, meta, current) == dir # NoDir /\ ~exists

\* _init_checkpoint, lines 239-247, then the fresh state of one call; the entry
\* point, when it is the launcher, rewrites the status file to "0" before the
\* call (lines 410-411)
StartCall ==
    /\ runs' = runs + 1
    /\ IF InitCheckpointWrites(checkpoint_dir, dirExists, metaFile, GridMeta)
       THEN /\ dirExists' = TRUE
            /\ metaFile' = GridMeta
            /\ metaWrites' = metaWrites + 1
       ELSE UNCHANGED <<dirExists, metaFile, metaWrites>>
    /\ statusFile' = IF fromMain THEN <<0>> ELSE statusFile
    /\ UNCHANGED <<records, container, gridVars, sideVars, cfgVars, reduction, fromMain, heap,
                   resetFrom>>
    /\ progressErrors' = {}
    /\ reductions' = 0
    /\ writes' = [i \in Idx |-> 0]
    /\ result' = [i \in Idx |-> NoVec]
    /\ status' = [i \in Idx |-> 0]
    /\ returned' = [i \in Idx |-> NoVec]
    /\ completed' = <<>>
    /\ lockHolder' = NoJob
    /\ failure' = "none"
    /\ metrics_' = <<>>
    /\ executed' = {}
    /\ evaluated' = {}
    /\ saved' = {}
    /\ hit' = {}
    /\ raised' = [i \in Idx |-> {}]
    /\ raises' = raises
    /\ reports' = [i \in Idx |-> 0]
    /\ progressCalls' = 0
    /\ startRecords' = {i \in Idx : checkpoint_dir # NoDir /\ dirExists /\ records[i] # NoVec}
    /\ prevHanded' = IF phase = "finished" THEN metrics_ ELSE <<>>
    /\ prevCompleted' = Range(completed)

\* JobLibExec.__call__, lines 266-269 and 292: the pool iterates the sequence lazily
JobLibExec_call ==
    /\ strategy = "local"
    /\ phase = "idle"
    /\ StartCall
    /\ phase' = "running"
    /\ pos' = 0
    /\ yielded' = <<>>
    /\ stops' = 0
    /\ pc' = [i \in Idx |-> "idle"]
    /\ jobSim' = [i \in Idx |-> template]
    /\ jobs' = <<>>

\* JobLibExec.__call__ once more, by a new process of the entry point, after the
\* call before it has finished or has been aborted: same grid, same directory
JobLibExec_recall ==
    /\ strategy = "local"
    /\ phase \in {"finished", "aborted"}
    /\ runs < MaxRuns
    /\ StartCall
    /\ phase' = "running"
    /\ pos' = 0
    /\ yielded' = <<>>
    /\ stops' = 0
    /\ pc' = [i \in Idx |-> "idle"]
    /\ jobSim' = [i \in Idx |-> template]
    /\ jobs' = <<>>

\* PostProcess.reduction when no reduction is configured
NoReduction == "None"

\* a call that submits the reduction whatever post.reduction is
HasReductionAlways(red) == TRUE

\* if self.post.reduction is not None, line 338
HasReduction(red) == red # NoReduction

\* the objects of one complete iteration of the sequence
AllObjects == [p \in 1..Len(values) |-> SimSeqObject(template, param1, param2, values[p])]

\* DaskExec.__call__, lines 301-342: list(zip(*enumerate(self.seq))) iterates the
\* whole sequence, client.map hands every task over at once; with a reduction
\* the call goes on to submit it and to wait for its result, without one it
\* returns the futures of the tasks ("pending") right away
DaskExec_call ==
    /\ strategy = "dask"
    /\ phase = "idle"
    /\ StartCall
    /\ phase' = IF HasReduction(reduction) THEN "running" ELSE "pending"
    /\ pos' = Len(values)
    /\ yielded' = AllObjects
    /\ stops' = 1
    /\ pc' = [i \in Idx |-> "idle"]
    /\ jobSim' = [i \in Idx |-> AllObjects[i + 1]]
    /\ jobs' = [p \in 1..Len(values) |-> p - 1]

(***************************************************************************)
(* The local strategy: JobLibExec.__call__ and its job.                    *)
(***************************************************************************)
\* the workers run while the call runs: an exception that leaves the call ends
\* the process of the entry point and its worker threads with it; what a worker
\* had done by then is what an interleaving before the exception does
Alive == phase = "running" \/ (strategy = "dask" /\ phase = "pending")

\* return result, lines 290 and 331: the job's value reaches the pool
Return(i, res) ==
    /\ pc' = [pc EXCEPT ![i] = "done"]
    /\ returned' = [returned EXCEPT ![i] = res]
    /\ completed' = Append(completed, i)

\* an enumeration that hands out index 0 with every configuration
EnumerateIndexStuck(i, p) == i = 0

\* enumerate(self.seq), line 292: the index handed out with a configuration is
\* the number of configurations taken before it
EnumerateIndex(i, p) == i = p

\* line 292: the pool takes the next (index, configuration) of enumerate(self.seq)
\* for a free worker
Pool_dispatch(i) ==
    /\ strategy = "local"
    /\ phase = "running"
    /\ pos # NoPos
    /\ ~SimSeqExhausted(pos, values)
    /\ EnumerateIndex(i, pos)
    /\ FreeWorker
    /\ jobSim' = [jobSim EXCEPT ![i] = SimSeqObject(template, param1, param2, values[pos + 1])]
    /\ yielded' = Append(yielded, SimSeqObject(template, param1, param2, values[pos + 1]))
    /\ pos' = pos + 1
    /\ pc' = [pc EXCEPT ![i] = "load"]
    /\ jobs' = Append(jobs, i)
    /\ UNCHANGED <<stops, result, status, returned, completed, lockHolder, phase, failure,
                   metrics_, container, gridVars, sideVars, extVars, cfgVars, diskVars, histVars>>

\* job, lines 273-274 (and 288-289 when the checkpoint is there)
Job_load(i) ==
    /\ strategy = "local"
    /\ Alive
    /\ pc[i] = "load"
    /\ LET res == LoadCheckpoint(checkpoint_dir, dirExists, records, i)
       IN  /\ result' = [result EXCEPT ![i] = res]
           /\ hit' = IF res # NoVec THEN hit \cup {i} ELSE hit
           /\ pc' = [pc EXCEPT ![i] = IF NeedsCompute(res) THEN "run" ELSE "monitor"]
    /\ UNCHANGED <<jobSim, status, returned, poolVars, gridVars, sideVars, extVars, iterVars,
                   cfgVars, diskVars,
                   runs, executed, evaluated, saved, raised, raises, reports, progressCalls,
                   startRecords, prevHanded, prevCompleted>>

\* a job that catches the failure of the backend and goes on with a vector of
\* NaN for its grid point
Job_backend_caught(i) ==
    /\ strategy = "local"
    /\ Alive
    /\ pc[i] = "run"
    /\ executed' = executed \cup {i}
    /\ result' = [result EXCEPT ![i] = [k \in 1..nmetrics |-> NaN]]
    /\ pc' = [pc EXCEPT ![i] = "checkpoint"]
    /\ UNCHANGED <<jobSim, status, returned, poolVars, gridVars, sideVars, extVars, iterVars,
                   cfgVars,
                   diskVars, runs, evaluated, saved, hit, raised, raises, reports,
                   progressCalls, startRecords, prevHanded, prevCompleted>>

\* job, lines 275-279, when the backend raises: nothing catches it, the
\* exception leaves pool(...) and __call__
Job_backend_raises(i) ==
    /\ strategy = "local"
    /\ Alive
    /\ pc[i] = "run"
    /\ executed' = executed \cup {i}
    /\ pc' = [pc EXCEPT ![i] = "raised_backend"]
    /\ phase' = "aborted"
    /\ failure' = IF phase = "running" THEN "backend" ELSE failure
    /\ UNCHANGED <<jobSim, result, status, returned, jobs, completed, lockHolder, metrics_,
                   container, gridVars, sideVars, extVars, iterVars, cfgVars, diskVars, runs,
                   evaluated, saved,
                   hit, raised, raises, reports, progressCalls, startRecords, prevHanded,
                   prevCompleted>>

\* job, lines 275-286: the backend runs the configuration, then every metric is
\* evaluated on its output; the metrics of F raise
Job_compute(i) ==
    /\ strategy = "local"
    /\ Alive
    /\ pc[i] = "run"
    /\ \E F \in SUBSET (1..nmetrics) :
          /\ raises + Cardinality(F) <= MaxRaises
          /\ result' = [result EXCEPT ![i] = EvalMetrics(jobSim[i], nmetrics, F)]
          /\ raised' = [raised EXCEPT ![i] = F]
          /\ raises' = raises + Cardinality(F)
    /\ executed' = executed \cup {i}
    /\ evaluated' = evaluated \cup {i}
    /\ pc' = [pc EXCEPT ![i] = "checkpoint"]
    /\ UNCHANGED <<jobSim, status, returned, poolVars, gridVars, sideVars, extVars, iterVars,
                   cfgVars, diskVars,
                   runs, saved, hit, reports, progressCalls, startRecords, prevHanded,
                   prevCompleted>>

\* job, line 287
Job_checkpoint(i) ==
    /\ strategy = "local"
    /\ Alive
    /\ pc[i] = "checkpoint"
    /\ records' = SaveCheckpoint(checkpoint_dir, records, i, result[i])
    /\ saved' = IF checkpoint_dir # NoDir THEN saved \cup {i} ELSE saved
    /\ pc' = [pc EXCEPT ![i] = "monitor"]
    /\ writes' = IF checkpoint_dir # NoDir THEN [writes EXCEPT ![i] = @ + 1] ELSE writes
    /\ UNCHANGED <<reduction, fromMain, heap, resetFrom, progressErrors, metaWrites,
                   reductions, jobSim, result, status, returned, poolVars, gridVars, sideVars,
                   iterVars, cfgVars,
                   dirExists, metaFile, statusFile, runs, executed, evaluated, hit, raised,
                   raises,
                   reports, progressCalls, startRecords, prevHanded, prevCompleted>>

\* monitor_execution, lines 251-252, then return result (line 290)
Job_monitor_callback(i) ==
    /\ strategy = "local"
    /\ Alive
    /\ pc[i] = "monitor"
    /\ update_progress = "callback"
    /\ progressCalls' = progressCalls + 1
    /\ reports' = [reports EXCEPT ![i] = @ + 1]
    /\ Return(i, result[i])
    /\ UNCHANGED <<jobSim, result, status, jobs, lockHolder, phase, failure, metrics_,
                   container, gridVars, sideVars, extVars, iterVars, cfgVars, diskVars, runs,
                   executed,
                   evaluated, saved, hit, raised, raises, startRecords, prevHanded,
                   prevCompleted>>

\* monitor_execution, lines 254-258: take the lock, open the file, read the count
Job_monitor_enter(i) ==
    /\ strategy = "local"
    /\ Alive
    /\ pc[i] = "monitor"
    /\ update_progress = "none"
    /\ LockFree(lockHolder)
    /\ IsInteger(statusFile)
    /\ lockHolder' = i
    /\ status' = [status EXCEPT ![i] = ParseInt(statusFile)]
    /\ pc' = [pc EXCEPT ![i] = "write"]
    /\ UNCHANGED <<jobSim, result, returned, jobs, completed, phase, failure, metrics_,
                   container, gridVars, sideVars, extVars, iterVars, cfgVars, diskVars, histVars>>

\* monitor_execution, lines 259-261: write the count, close the file, release the
\* lock; then return result (line 290)
Job_monitor_exit(i) ==
    /\ strategy = "local"
    /\ Alive
    /\ pc[i] = "write"
    /\ statusFile' = WriteAt0(statusFile, Str(status[i] + 1))
    /\ lockHolder' = NoJob
    /\ reports' = [reports EXCEPT ![i] = @ + 1]
    /\ Return(i, result[i])
    /\ UNCHANGED <<jobSim, result, status, jobs, phase, failure, metrics_, container,
                   gridVars, sideVars, extVars, iterVars, cfgVars, dirExists, metaFile,
                   records, runs, executed,
                   evaluated, saved, hit, raised, raises, progressCalls, startRecords, prevHanded,
                   prevCompleted>>

\* monitor_execution, lines 250 and 262-263, when its body raises exc: the except
\* clause logs the error and the job goes on to return result (line 290); an
\* exception the clause does not catch leaves the job and the sweep call
MonitorFailure(i, exc) ==
    /\ progressErrors' = progressErrors \cup {i}
    /\ IF MonitorCatches(exc)
       THEN /\ Return(i, result[i])
            /\ UNCHANGED <<phase, failure>>
       ELSE /\ pc' = [pc EXCEPT ![i] = "raised_progress"]
            /\ phase' = "aborted"
            /\ failure' = "progress"
            /\ UNCHANGED <<returned, completed>>

\* monitor_execution, lines 254-258, on a status file that is missing or holds
\* no integer: open or int raises inside the with block of the lock, which
\* releases the lock on the way out
Job_monitor_raises(i) ==
    /\ strategy = "local"
    /\ Alive
    /\ pc[i] = "monitor"
    /\ update_progress = "none"
    /\ LockFree(lockHolder)
    /\ ~IsInteger(statusFile)
    /\ lockHolder' = NoJob
    /\ MonitorFailure(i, StatusError(statusFile))
    /\ UNCHANGED <<jobSim, result, status, jobs, metrics_, container, gridVars, sideVars,
                   iterVars,
                   cfgVars, diskVars, histVars, reduction, fromMain, heap, resetFrom,
                   metaWrites, reductions, writes>>

\* monitor_execution, lines 251-252, when the callback raises
Job_monitor_callback_raises(i) ==
    /\ strategy = "local"
    /\ Alive
    /\ pc[i] = "monitor"
    /\ update_progress = "callback"
    /\ progressCalls' = progressCalls + 1
    /\ MonitorFailure(i, "Exception")
    /\ UNCHANGED <<jobSim, result, status, jobs, lockHolder, metrics_, container, gridVars,
                   sideVars,
                   iterVars, cfgVars, diskVars, runs, executed, evaluated, saved, hit, raised,
                   raises, reports, startRecords, prevHanded, prevCompleted, reduction,
                   fromMain, heap, resetFrom, metaWrites, reductions, writes>>

\* a pool that hands over its output as soon as every task is dispatched
AllDispatched == SimSeqExhausted(pos, values)

\* every job has returned and the sequence is exhausted
AllReturned == SimSeqExhausted(pos, values) /\ \A i \in Idx : pc[i] = "done"

\* np.array(...).reshape(...), lines 182 and 199, can be done: every vector has one
\* slot per metric
ReshapeFits(metric_data, K) == \A p \in 1..Len(metric_data) : Len(metric_data[p]) = K

\* JobLibExec.__call__, lines 292-295: the pool's output goes to the reduction
Pool_reduce ==
    /\ strategy = "local"
    /\ phase = "running"
    /\ AllReturned
    /\ ReshapeFits(PoolOutput(jobs, completed, returned), nmetrics)
    /\ metrics_' = PoolOutput(jobs, completed, returned)
    /\ container' = SaveDataToDisk(param1, param2, x_values, y_values, nmetrics,
                                   PoolOutput(jobs, completed, returned))
    /\ phase' = "finished"
    /\ reductions' = reductions + 1
    /\ UNCHANGED <<reduction, fromMain, heap, resetFrom, progressErrors, metaWrites, writes,
                   jobs, completed, lockHolder, failure, gridVars, sideVars, iterVars, cfgVars,
                   diskVars, jobVars, histVars>>

\* JobLibExec.__call__, line 294, when the reshape of line 199 raises
Pool_reduce_raises ==
    /\ strategy = "local"
    /\ phase = "running"
    /\ AllReturned
    /\ ~ReshapeFits(PoolOutput(jobs, completed, returned), nmetrics)
    /\ metrics_' = PoolOutput(jobs, completed, returned)
    /\ phase' = "aborted"
    /\ failure' = "reduction"
    /\ reductions' = reductions + 1
    /\ UNCHANGED <<reduction, fromMain, heap, resetFrom, progressErrors, metaWrites, writes,
                   jobs, completed, lockHolder, container, gridVars, sideVars, iterVars, cfgVars,
                   diskVars, jobVars, histVars>>

(***************************************************************************)
(* The distributed strategy: DaskExec.__call__ and its job.                *)
(***************************************************************************)
\* a worker of the cluster takes one of the mapped tasks, in any order
DaskJob_start(i) ==
    /\ strategy = "dask"
    /\ Alive
    /\ pc[i] = "idle"
    /\ FreeWorker
    /\ pc' = [pc EXCEPT ![i] = "load"]
    /\ UNCHANGED <<jobSim, result, status, returned, poolVars, gridVars, sideVars, extVars,
                   iterVars, cfgVars,
                   diskVars, histVars>>

\* job, lines 322-323 (and 331 when the checkpoint is there)
DaskJob_load(i) ==
    /\ strategy = "dask"
    /\ Alive
    /\ pc[i] = "load"
    /\ LET res == LoadCheckpoint(checkpoint_dir, dirExists, records, i)
       IN  /\ result' = [result EXCEPT ![i] = res]
           /\ hit' = IF res # NoVec THEN hit \cup {i} ELSE hit
           /\ IF NeedsCompute(res)
              THEN /\ pc' = [pc EXCEPT ![i] = "run"]
                   /\ UNCHANGED <<returned, completed>>
              ELSE Return(i, res)
    /\ UNCHANGED <<jobSim, status, jobs, lockHolder, phase, failure, metrics_, container,
                   gridVars, sideVars, extVars, iterVars, cfgVars, diskVars, runs, executed,
                   evaluated, saved,
                   raised, raises, reports, progressCalls, startRecords, prevHanded,
                   prevCompleted>>

\* job, lines 324-328, when the backend raises: the task's future holds the error
DaskJob_backend_raises(i) ==
    /\ strategy = "dask"
    /\ Alive
    /\ pc[i] = "run"
    /\ executed' = executed \cup {i}
    /\ pc' = [pc EXCEPT ![i] = "raised_backend"]
    /\ UNCHANGED <<jobSim, result, status, returned, poolVars, gridVars, sideVars, extVars,
                   iterVars, cfgVars,
                   diskVars, runs, evaluated, saved, hit, raised, raises, reports, progressCalls,
                   startRecords, prevHanded, prevCompleted>>

\* job, lines 324-329, when no metric raises
DaskJob_compute(i) ==
    /\ strategy = "dask"
    /\ Alive
    /\ pc[i] = "run"
    /\ result' = [result EXCEPT ![i] = EvalMetrics(jobSim[i], nmetrics, {})]
    /\ executed' = executed \cup {i}
    /\ evaluated' = evaluated \cup {i}
    /\ pc' = [pc EXCEPT ![i] = "checkpoint"]
    /\ UNCHANGED <<jobSim, status, returned, poolVars, gridVars, sideVars, extVars, iterVars,
                   cfgVars, diskVars,
                   runs, saved, hit, raised, raises, reports, progressCalls, startRecords,
                   prevHanded, prevCompleted>>

\* job, lines 324-329, when metric k raises after the backend has run: nothing
\* catches it, the list of line 329 is not built and the task's future holds the
\* error
DaskJob_metric_raises(i) ==
    /\ strategy = "dask"
    /\ Alive
    /\ pc[i] = "run"
    /\ raises < MaxRaises
    /\ \E k \in 1..nmetrics : raised' = [raised EXCEPT ![i] = {k}]
    /\ raises' = raises + 1
    /\ executed' = executed \cup {i}
    /\ evaluated' = evaluated \cup {i}
    /\ pc' = [pc EXCEPT ![i] = "raised_metric"]
    /\ UNCHANGED <<jobSim, result, status, returned, poolVars, gridVars, sideVars, extVars,
                   iterVars, cfgVars,
                   diskVars, runs, saved, hit, reports, progressCalls, startRecords,
                   prevHanded, prevCompleted>>

\* job, lines 330-331
DaskJob_checkpoint(i) ==
    /\ strategy = "dask"
    /\ Alive
    /\ pc[i] = "checkpoint"
    /\ records' = SaveCheckpoint(checkpoint_dir, records, i, result[i])
    /\ saved' = IF checkpoint_dir # NoDir THEN saved \cup {i} ELSE saved
    /\ Return(i, result[i])
    /\ writes' = IF checkpoint_dir # NoDir THEN [writes EXCEPT ![i] = @ + 1] ELSE writes
    /\ UNCHANGED <<reduction, fromMain, heap, resetFrom, progressErrors, metaWrites,
                   reductions, jobSim, result, status, jobs, lockHolder, phase, failure, metrics_,
                   container, gridVars, sideVars, iterVars, cfgVars, dirExists, metaFile,
                   statusFile,
                   runs, executed, evaluated, hit, raised, raises, reports, progressCalls,
                   startRecords, prevHanded, prevCompleted>>

\* DaskExec.__call__, lines 333-340: the reduction runs on the results of all futures
Dask_reduce ==
    /\ strategy = "dask"
    /\ phase = "running"
    /\ AllReturned
    /\ ReshapeFits(PoolOutput(jobs, completed, returned), nmetrics)
    /\ metrics_' = PoolOutput(jobs, completed, returned)
    /\ container' = SaveDataToDisk(param1, param2, x_values, y_values, nmetrics,
                                   PoolOutput(jobs, completed, returned))
    /\ phase' = "finished"
    /\ reductions' = reductions + 1
    /\ UNCHANGED <<reduction, fromMain, heap, resetFrom, progressErrors, metaWrites, writes,
                   jobs, completed, lockHolder, failure, gridVars, sideVars, iterVars, cfgVars,
                   diskVars, jobVars, histVars>>

\* DaskExec.__call__, lines 333-340, when the reshape of line 199 raises
Dask_reduce_raises ==
    /\ strategy = "dask"
    /\ phase = "running"
    /\ AllReturned
    /\ ~ReshapeFits(PoolOutput(jobs, completed, returned), nmetrics)
    /\ metrics_' = PoolOutput(jobs, completed, returned)
    /\ phase' = "aborted"
    /\ failure' = "reduction"
    /\ reductions' = reductions + 1
    /\ UNCHANGED <<reduction, fromMain, heap, resetFrom, progressErrors, metaWrites, writes,
                   jobs, completed, lockHolder, container, gridVars, sideVars, iterVars, cfgVars,
                   diskVars, jobVars, histVars>>

\* DaskExec.__call__, line 340: reduced.result() raises the error of a task
\* the reduction depends on
Dask_result_raises ==
    /\ strategy = "dask"
    /\ phase = "running"
    /\ \E i \in Idx :
          /\ pc[i] \in {"raised_backend", "raised_metric"}
          /\ failure' = IF pc[i] = "raised_backend" THEN "backend" ELSE "metric"
    /\ phase' = "aborted"
    /\ UNCHANGED <<jobs, completed, lockHolder, metrics_, container, gridVars, sideVars,
                   extVars, iterVars,
                   cfgVars, diskVars, jobVars, histVars>>

Next ==
    \/ JobLibExec_call
    \/ DaskExec_call
    \/ Pool_reduce
    \/ Pool_reduce_raises
    \/ Dask_reduce
    \/ Dask_reduce_raises
    \/ Dask_result_raises
    \/ \E i \in Idx : Pool_dispatch(i)
    \/ \E i \in Idx : Job_load(i)
    \/ \E i \in Idx : Job_compute(i)
    \/ \E i \in Idx : Job_backend_raises(i)
    \/ \E i \in Idx : Job_checkpoint(i)
    \/ \E i \in Idx : Job_monitor_callback(i)
    \/ \E i \in Idx : Job_monitor_enter(i)
    \/ \E i \in Idx : Job_monitor_exit(i)
    \/ \E i \in Idx : DaskJob_start(i)
    \/ \E i \in Idx : DaskJob_load(i)
    \/ \E i \in Idx : DaskJob_compute(i)
    \/ \E i \in Idx : DaskJob_backend_raises(i)
    \/ \E i \in Idx : DaskJob_metric_raises(i)
    \/ \E i \in Idx : DaskJob_checkpoint(i)

Spec == Init /\ [][Next]_vars

(***************************************************************************)
(* The local sweep called again on the checkpoint directory of the call    *)
(* before it.                                                              *)
(***************************************************************************)
InitResume ==
    /\ Init
    /\ Len(values) <= ResumePoints
    /\ strategy = "local"
    /\ checkpoint_dir # NoDir
    /\ update_progress = "callback"

NextResume ==
    \/ JobLibExec_call
    \/ JobLibExec_recall
    \/ Pool_reduce
    \/ Pool_reduce_raises
    \/ \E i \in Idx : Pool_dispatch(i)
    \/ \E i \in Idx : Job_load(i)
    \/ \E i \in Idx : Job_compute(i)
    \/ \E i \in Idx : Job_backend_raises(i)
    \/ \E i \in Idx : Job_checkpoint(i)
    \/ \E i \in Idx : Job_monitor_callback(i)

SpecResume == InitResume /\ [][NextResume]_vars

(***************************************************************************)
(* The local sweep of launch_local_param (no checkpoint directory, line    *)
(* 389) with progress reports that can fail: launched by the entry point   *)
(* or called from elsewhere, where nothing has prepared the status file.   *)
(***************************************************************************)
InitProgress ==
    /\ InitSweep
    /\ Len(values) <= ProgressPoints
    /\ strategy = "local"
    /\ checkpoint_dir = NoDir
    /\ reduction = "SaveDataToDisk"
    /\ fromMain \in BOOLEAN
    /\ statusFile \in (IF fromMain THEN {<<0>>} ELSE {NoFile, <<>>, <<0>>})

NextProgress ==
    \/ JobLibExec_call
    \/ Pool_reduce
    \/ \E i \in Idx : Pool_dispatch(i)
    \/ \E i \in Idx : Job_load(i)
    \/ \E i \in Idx : Job_compute(i)
    \/ \E i \in Idx : Job_backend_raises(i)
    \/ \E i \in Idx : Job_checkpoint(i)
    \/ \E i \in Idx : Job_monitor_callback(i)
    \/ \E i \in Idx : Job_monitor_callback_raises(i)
    \/ \E i \in Idx : Job_monitor_enter(i)
    \/ \E i \in Idx : Job_monitor_exit(i)
    \/ \E i \in Idx : Job_monitor_raises(i)

SpecProgress == InitProgress /\ [][NextProgress]_vars

(***************************************************************************)
(* The status file across sweeps.  The entry point writes "0" (lines       *)
(* 410-411); a sweep started through launch_local_param alone finds the    *)
(* count an earlier sweep left, here one that is about to gain a digit.    *)
(***************************************************************************)
StatusStarts == {Str(k) : k \in {0, 8, 9, 98, 99}}

InitStatus ==
    /\ InitSweep
    /\ Len(values) <= ProgressPoints
    /\ strategy = "local"
    /\ checkpoint_dir = NoDir
    /\ update_progress = "none"
    /\ reduction = "SaveDataToDisk"
    /\ fromMain \in BOOLEAN
    /\ statusFile \in (IF fromMain THEN {<<0>>} ELSE StatusStarts)

NextStatus ==
    \/ JobLibExec_call
    \/ Pool_reduce
    \/ \E i \in Idx : Pool_dispatch(i)
    \/ \E i \in Idx : Job_load(i)
    \/ \E i \in Idx : Job_compute(i)
    \/ \E i \in Idx : Job_backend_raises(i)
    \/ \E i \in Idx : Job_checkpoint(i)
    \/ \E i \in Idx : Job_monitor_enter(i)
    \/ \E i \in Idx : Job_monitor_exit(i)

SpecStatus == InitStatus /\ [][NextStatus]_vars

(***************************************************************************)
(* launch_local_param called again for the same grid: each call builds its *)
(* JobLibExec with checkpoint_dir=None (line 389).                         *)
(***************************************************************************)

\* a launch that hands its executor a directory
LaunchCheckpointDirGiven == "ckpt"

\* checkpoint_dir=None, line 389
LaunchCheckpointDir == NoDir

InitLocal ==
    /\ Init
    /\ Len(values) <= ResumePoints
    /\ strategy = "local"
    /\ nmetrics = 1
    /\ checkpoint_dir = LaunchCheckpointDir

NextLocal ==
    \/ JobLibExec_call
    \/ JobLibExec_recall
    \/ Pool_reduce
    \/ \E i \in Idx : Pool_dispatch(i)
    \/ \E i \in Idx : Job_load(i)
    \/ \E i \in Idx : Job_compute(i)
    \/ \E i \in Idx : Job_backend_raises(i)
    \/ \E i \in Idx : Job_checkpoint(i)
    \/ \E i \in Idx : Job_monitor_callback(i)
    \/ \E i \in Idx : Job_monitor_enter(i)
    \/ \E i \in Idx : Job_monitor_exit(i)

SpecLocal == InitLocal /\ [][NextLocal]_vars

(***************************************************************************)
(* The distributed sweep, with and without a reduction configured.         *)
(***************************************************************************)
InitDask ==
    /\ InitSweep
    /\ strategy = "dask"
    /\ reduction \in {"SaveDataToDisk", NoReduction}
    /\ fromMain = TRUE
    /\ statusFile = <<0>>

NextDask ==
    \/ DaskExec_call
    \/ Dask_reduce
    \/ Dask_reduce_raises
    \/ Dask_result_raises
    \/ \E i \in Idx : DaskJob_start(i)
    \/ \E i \in Idx : DaskJob_load(i)
    \/ \E i \in Idx : DaskJob_compute(i)
    \/ \E i \in Idx : DaskJob_backend_raises(i)
    \/ \E i \in Idx : DaskJob_metric_raises(i)
    \/ \E i \in Idx : DaskJob_checkpoint(i)

SpecDask == InitDask /\ [][NextDask]_vars

(***************************************************************************)
(* The Reduction step alone, on grids that can have a connectivity axis.   *)
(***************************************************************************)
\* a title of L characters, all different
Title(L) == [c \in 1..L |-> 64 + c]

Titles == {Title(L) : L \in {0} \cup ((TitleCut - 1)..(TitleCut + TitleExtra))}

\* the values an axis of the parameter can have
AxisValues(param) ==
    LET S == IF param = "connectivity" THEN Titles ELSE 1..MaxVal
    IN  SeqsUpTo(S, MaxAxis) \ {<<>>}

LabelInit ==
    /\ SweepOff
    /\ SideOff
    /\ param1 \in ParamNames
    /\ param2 \in ParamNames \ {param1}
    /\ x_values \in AxisValues(param1)
    /\ y_values \in AxisValues(param2)
    /\ template = [a \in ParamNames |-> TemplateValue]
    /\ values = InputValues(param1, param2, x_values, y_values)
    /\ pos = NoPos
    /\ yielded = <<>>
    /\ stops = 0
    /\ heap = <<>>
    /\ resetFrom = "none"

\* self.post.reduction(metrics_), line 294, on one vector per grid point
SaveDataToDisk_call ==
    /\ reductions = 0
    /\ metrics_' = [p \in 1..Len(values) |-> [k \in 1..nmetrics |-> p]]
    /\ container' = SaveDataToDisk(param1, param2, x_values, y_values, nmetrics, metrics_')
    /\ reductions' = reductions + 1
    /\ UNCHANGED <<jobs, completed, lockHolder, phase, failure, gridVars, sideVars, iterVars,
                   cfgVars,
                   diskVars, jobVars, histVars, reduction, fromMain, heap, resetFrom,
                   progressErrors, metaWrites, writes>>

LabelNext == SaveDataToDisk_call

SpecLabel == LabelInit /\ [][LabelNext]_vars

(***************************************************************************)
(* HPCLaunch (core/hpc/launcher.py).  The constructor calls submit_job     *)
(* with do_stage_out = True (line 38).  What the remote site answers is    *)
(* chosen at the start; the launcher only reads it.                        *)
(***************************************************************************)

\* Status.FAILED, lines 168 and 194
JobFailedNever(st) == FALSE

\* job.properties['status'] == Status.FAILED, lines 168 and 194
JobFailed(st) == st = "FAILED"

\* a stage-out that downloads whatever the listing says
StageOutFetchesAlways(listed) == TRUE

\* stage_out_results, lines 202-210: content.get(file_name) is not None
StageOutFetches(listed) == listed

\* connect_client, lines 58-84, with get_current_token of auth.py lines 14-27:
\* the token is fetched outside every try block, so its RuntimeError leaves
\* connect_client; the three guarded steps log an error and return None.
ConnectOutcome(token, registry, site, auth) ==
    IF ~token THEN "RuntimeError"
    ELSE IF ~registry THEN "registry"
    ELSE IF ~site THEN "site"
    ELSE IF ~auth THEN "authentication"
    ELSE "client"

\* _check_environment_ready, lines 86-121: True only for a matching installation
EnvironmentReady(env) == env = "ready"

\* the arguments after "python -m executable" in the workflow command, lines 175-177
WorkflowCommand ==
    <<"param1", "param2", "param1_values", "param2_values", "metrics", "file_name">>

\* the names the entry point binds from sys.argv[1], sys.argv[2], ..., lines 394-401
EntryNames ==
    <<"param1", "param2", "param1_values", "param2_values", "metrics", "file_name", "n_threads">>

\* sys.argv[k]: sys.argv[0] is the first element of the sequence
Argv(k) == argv[k + 1]

\* the state of the sweep variables while only the launcher runs
NoSweep ==
    /\ SweepOff
    /\ heap = <<>>
    /\ resetFrom = "none"
    /\ param1 = "conduction_speed"
    /\ param2 = "coupling.a"
    /\ x_values = <<1>>
    /\ y_values = <<1>>
    /\ template = [a \in ParamNames |-> TemplateValue]
    /\ values = InputValues(param1, param2, x_values, y_values)
    /\ pos = NoPos
    /\ yielded = <<>>
    /\ stops = 0

LaunchInit ==
    /\ NoSweep
    /\ ShareOff
    /\ TsOff
    /\ tokenAvail \in BOOLEAN
    /\ registryUp \in BOOLEAN
    /\ siteListed \in BOOLEAN
    /\ authOk \in BOOLEAN
    /\ homeFound \in BOOLEAN
    /\ prepStatus \in {"SUCCESSFUL", "FAILED"}
    /\ flowStatus \in {"SUCCESSFUL", "FAILED"}
    /\ outputListed \in BOOLEAN
    /\ envState \in {"no_dir", "no_env", "stale", "ready"}
    /\ hpcPc = "connect"
    /\ submitted = <<>>
    /\ polled = {}
    /\ downloads = 0
    /\ hpcErrors = {}
    /\ hpcRaised = "none"
    /\ argv = <<>>
    /\ mainPc = "idle"
    /\ bound = <<>>

\* submit_job lines 142-145 with connect_client lines 58-84
HPC_connect ==
    /\ hpcPc = "connect"
    /\ LET out == ConnectOutcome(tokenAvail, registryUp, siteListed, authOk)
       IN  /\ hpcPc' = IF out = "RuntimeError" THEN "raised"
                       ELSE IF out = "client" THEN "search_home" ELSE "returned"
           /\ hpcRaised' = IF out = "RuntimeError" THEN out ELSE hpcRaised
           /\ hpcErrors' = IF out \in {"RuntimeError", "client"} THEN hpcErrors
                           ELSE hpcErrors \cup {out, "connect"}
    /\ UNCHANGED <<hpcEnv, envState, submitted, polled, downloads, argv, mainPc, bound,
                   sweepVars, shareVars, tsVars>>

\* submit_job lines 147-150 with _search_for_home_dir lines 123-134
HPC_search_home ==
    /\ hpcPc = "search_home"
    /\ hpcPc' = IF homeFound THEN "check_env" ELSE "returned"
    /\ hpcErrors' = IF homeFound THEN hpcErrors ELSE hpcErrors \cup {"storage"}
    /\ UNCHANGED <<hpcEnv, envState, submitted, polled, downloads, hpcRaised, argv, mainPc,
                   bound, sweepVars, shareVars, tsVars>>

\* submit_job lines 152-156 with _check_environment_ready lines 86-121; a
\* missing environment directory is created on the remote storage (line 89)
HPC_check_env ==
    /\ hpcPc = "check_env"
    /\ hpcPc' = IF EnvironmentReady(envState) THEN "launch" ELSE "prepare"
    /\ envState' = IF envState = "no_dir" THEN "no_env" ELSE envState
    /\ UNCHANGED <<hpcEnv, submitted, polled, downloads, hpcErrors, hpcRaised, argv, mainPc,
                   bound, sweepVars, shareVars, tsVars>>

\* submit_job lines 157-166: the environment job is handed to client.new_job
HPC_submit_prep ==
    /\ hpcPc = "prepare"
    /\ submitted' = Append(submitted, "env_prep")
    /\ hpcPc' = "poll_prep"
    /\ UNCHANGED <<hpcEnv, envState, polled, downloads, hpcErrors, hpcRaised, argv, mainPc,
                   bound, sweepVars, shareVars, tsVars>>

\* submit_job lines 167-171: poll() returns when the job has ended
HPC_poll_prep ==
    /\ hpcPc = "poll_prep"
    /\ polled' = polled \cup {"env_prep"}
    /\ hpcPc' = IF JobFailed(prepStatus) THEN "returned" ELSE "launch"
    /\ hpcErrors' = IF JobFailed(prepStatus) THEN hpcErrors \cup {"environment"}
                    ELSE hpcErrors
    /\ UNCHANGED <<hpcEnv, envState, submitted, downloads, hpcRaised, argv, mainPc, bound,
                   sweepVars, shareVars, tsVars>>

\* submit_job lines 173-185: the workflow job is handed to client.new_job
HPC_submit_workflow ==
    /\ hpcPc = "launch"
    /\ submitted' = Append(submitted, "workflow")
    /\ argv' = <<"tvbwidgets.core.pse.parameters">> \o WorkflowCommand
    /\ hpcPc' = "monitor"
    /\ UNCHANGED <<hpcEnv, envState, polled, downloads, hpcErrors, hpcRaised, mainPc, bound,
                   sweepVars, shareVars, tsVars>>

\* the remote job: the entry point binds sys.argv[1] .. sys.argv[7] in this
\* order (parameters.py lines 394-401); a missing argument is an IndexError
Main_read_args ==
    /\ argv # <<>>
    /\ mainPc = "idle"
    /\ LET supplied == Len(argv) - 1
           n == IF supplied < Len(EntryNames) THEN supplied ELSE Len(EntryNames)
       IN  /\ bound' = [k \in 1..n |-> [name |-> EntryNames[k], arg |-> Argv(k)]]
           /\ mainPc' = IF supplied < Len(EntryNames) THEN "IndexError" ELSE "running"
    /\ UNCHANGED <<hpcEnv, envState, hpcPc, submitted, polled, downloads, hpcErrors,
                   hpcRaised, argv, sweepVars, shareVars, tsVars>>

\* monitor_job lines 189-199: poll() returns when the workflow job has ended
HPC_monitor ==
    /\ hpcPc = "monitor"
    /\ mainPc # "idle"
    /\ polled' = polled \cup {"workflow"}
    /\ hpcPc' = IF JobFailed(flowStatus) THEN "returned" ELSE "stage_out"
    /\ hpcErrors' = IF JobFailed(flowStatus) THEN hpcErrors \cup {"workflow"} ELSE hpcErrors
    /\ UNCHANGED <<hpcEnv, envState, submitted, downloads, hpcRaised, argv, mainPc, bound,
                   sweepVars, shareVars, tsVars>>

\* stage_out_results lines 201-211
HPC_stage_out ==
    /\ hpcPc = "stage_out"
    /\ downloads' = IF StageOutFetches(outputListed) THEN downloads + 1 ELSE downloads
    /\ hpcPc' = "returned"
    /\ UNCHANGED <<hpcEnv, envState, submitted, polled, hpcErrors, hpcRaised, argv, mainPc,
                   bound, sweepVars, shareVars, tsVars>>

LaunchNext ==
    \/ HPC_connect
    \/ HPC_search_home
    \/ HPC_check_env
    \/ HPC_submit_prep
    \/ HPC_poll_prep
    \/ HPC_submit_workflow
    \/ Main_read_args
    \/ HPC_monitor
    \/ HPC_stage_out

SpecLaunch == LaunchInit /\ [][LaunchNext]_vars

(***************************************************************************)
(* TimeSeriesWidget (ui/ts_widget.py).  A data set is n channels sampled   *)
(* at a rate; its channels are labelled 0 .. n-1 ('signal-0', ...) and     *)
(* ch_order is range(n) (lines 109-110, 186-188), so a channel's number    *)
(* is also its index in ch_order.  The figure is what mne keeps in         *)
(* fig.mne; the widget reads and writes ch_start, n_channels and picks.    *)
(***************************************************************************)
DataSets == [n : 1..MaxChannels, rate : {1, 2}]

\* get_channels_info: the channel numbers of a data set of n channels
Channels(n) == 0..(n - 1)

\* a widget that takes any data set it is given
HoldsDataNever(data) == FALSE

\* _populate_from_data_wrapper, line 275: self.data is not None
HoldsData(data) == data # NoData

\* the elements of a set of channel numbers in ascending order
Ascending(S) ==
    CHOOSE s \in [1..Cardinality(S) -> S] : \A a, b \in DOMAIN s : a < b => s[a] < s[b]

\* raw.plot(n_channels=self.no_channels), lines 455-457: the first channels
FreshPlot(n) ==
    LET shown == IF n < MaxShown THEN n ELSE MaxShown
    IN  [nchan |-> n, ch_start |-> 0, n_channels |-> shown,
         picks |-> Ascending(Channels(shown))]

\* _get_next_checked_channel, lines 572-579: the index after ch_start whose
\* channel is checked; ch_order[ch_start] with ch_start = n is the IndexError
RECURSIVE GetNextCheckedChannel(_, _, _)
GetNextCheckedChannel(ch_start, checked, n) ==
    IF ch_start + 1 >= n THEN n
    ELSE IF ch_start + 1 \in checked THEN ch_start + 1
    ELSE GetNextCheckedChannel(ch_start + 1, checked, n)

\* _update_ts, lines 516-570, for the change val of one checkbox: the figure it
\* leaves and the exception it ends with.  A label of self.checkboxes that is
\* not among the figure's ch_names makes ch_names.index raise ValueError (532).
UpdateTs(f, boxes, val) ==
    LET n == f.nchan
        start1 == IF ~val.old /\ val.new /\ val.owner < f.ch_start
                  THEN val.owner ELSE f.ch_start
        picked == {c \in Channels(n) : c \in DOMAIN boxes /\ boxes[c]}
        n1 == IF Cardinality(picked) < f.n_channels
                 \/ (f.n_channels < Cardinality(picked) /\ Cardinality(picked) <= MaxShown)
              THEN Cardinality(picked) ELSE MaxShown
        filtered == Ascending(picked)
        start2 == IF start1 \in picked THEN start1
                  ELSE GetNextCheckedChannel(start1, picked, n)
        index == CHOOSE k \in 1..Len(filtered) : filtered[k] = start2
        last == IF index + n1 - 1 < Len(filtered) THEN index + n1 - 1 ELSE Len(filtered)
        new_picks == SubSeq(filtered, index, last)
    IN  IF \E l \in DOMAIN boxes : l \notin Channels(n)
        THEN [fig |-> [f EXCEPT !.ch_start = start1], exc |-> "ValueError"]
        ELSE IF picked = {}
        THEN [fig |-> [f EXCEPT !.ch_start = start1, !.picks = <<>>, !.n_channels = 0],
              exc |-> "none"]
        ELSE IF start2 >= n
        THEN [fig |-> [f EXCEPT !.ch_start = start1, !.n_channels = n1],
              exc |-> "IndexError"]
        ELSE [fig |-> [nchan |-> n, ch_start |-> new_picks[1],
                       n_channels |-> Len(new_picks), picks |-> new_picks],
              exc |-> "none"]

\* update_on_plot_interaction, lines 419-430: every pick whose box is unchecked
\* is checked, which runs _update_ts before the next pick is looked at
RECURSIVE Recheck(_, _, _)
Recheck(f, boxes, todo) ==
    IF todo = <<>> THEN [fig |-> f, boxes |-> boxes, exc |-> "none"]
    ELSE IF boxes[Head(todo)] THEN Recheck(f, boxes, Tail(todo))
    ELSE LET set == [boxes EXCEPT ![Head(todo)] = TRUE]
             r == UpdateTs(f, set, [owner |-> Head(todo), old |-> FALSE, new |-> TRUE])
         IN  IF r.exc # "none" THEN [fig |-> r.fig, boxes |-> set, exc |-> r.exc]
             ELSE Recheck(r.fig, set, Tail(todo))

\* TimeSeriesWidget.__init__, lines 357-376
WidgetInit ==
    /\ NoSweep
    /\ HpcOff
    /\ ShareOff
    /\ tsData = NoData
    /\ tsFields = [sample_freq |-> 0, ch_names |-> 0, raw |-> NoData]
    /\ checkboxes = <<>>
    /\ fig = NoFig
    /\ tsRaised = "none"
    /\ tsOp = "none"
    /\ tsPrev = [data |-> NoData, fields |-> tsFields, offered |-> NoData]
    /\ navigated = FALSE

\* add_data(d), lines 267-283 and 383-387: the refusal of a second data set,
\* else the fields, a checked box per channel (lines 296-309) and a new plot
TS_add_data(d) ==
    /\ tsOp' = "add"
    /\ tsPrev' = [data |-> tsData, fields |-> tsFields, offered |-> d]
    /\ IF HoldsData(tsData)
       THEN /\ tsRaised' = "InvalidInputException"
            /\ UNCHANGED <<tsData, tsFields, checkboxes, fig, navigated>>
       ELSE /\ tsRaised' = "none"
            /\ tsData' = d
            /\ tsFields' = [sample_freq |-> d.rate, ch_names |-> d.n, raw |-> d]
            /\ checkboxes' = [l \in DOMAIN checkboxes \cup Channels(d.n) |->
                                 IF l \in Channels(d.n) THEN TRUE ELSE checkboxes[l]]
            /\ fig' = FreshPlot(d.n)
            /\ navigated' = FALSE
    /\ UNCHANGED <<sweepVars, hpcVars, shareVars>>

\* reset_data, lines 379-381
TS_reset_data ==
    /\ tsData # NoData
    /\ tsData' = NoData
    /\ tsOp' = "reset"
    /\ tsRaised' = "none"
    /\ UNCHANGED <<tsFields, checkboxes, fig, tsPrev, navigated, sweepVars, hpcVars,
                   shareVars>>

\* the user changes the box of channel c of the channels area; _update_ts is
\* its observer (line 484)
TS_checkbox_change(c) ==
    /\ tsData # NoData
    /\ c \in Channels(tsData.n)
    /\ LET set == [checkboxes EXCEPT ![c] = ~@]
           r == UpdateTs(fig, set, [owner |-> c, old |-> checkboxes[c], new |-> set[c]])
       IN  /\ checkboxes' = set
           /\ fig' = r.fig
           /\ tsRaised' = r.exc
    /\ tsOp' = "checkbox"
    /\ UNCHANGED <<tsData, tsFields, tsPrev, navigated, sweepVars, hpcVars, shareVars>>

\* a key or mouse event on the figure: mne may move or resize the window of
\* channels shown, picks = ch_order[ch_start : ch_start + n_channels]; then
\* update_on_plot_interaction runs (lines 419-430, connected at 465-466)
Plot_navigate(s, k) ==
    /\ tsData # NoData
    /\ s \in Channels(fig.nchan)
    /\ k \in 1..MaxShown
    /\ s + k <= fig.nchan
    /\ LET moved == [fig EXCEPT !.ch_start = s, !.n_channels = k,
                                !.picks = [p \in 1..k |-> s + p - 1]]
           r == Recheck(moved, checkboxes, moved.picks)
       IN  /\ fig' = r.fig
           /\ checkboxes' = r.boxes
           /\ tsRaised' = r.exc
    /\ tsOp' = "navigate"
    /\ navigated' = TRUE
    /\ UNCHANGED <<tsData, tsFields, tsPrev, sweepVars, hpcVars, shareVars>>

WidgetNext ==
    \/ \E d \in DataSets : TS_add_data(d)
    \/ TS_reset_data
    \/ \E c \in 0..(MaxChannels - 1) : TS_checkbox_change(c)
    \/ \E s \in 0..(MaxChannels - 1), k \in 1..MaxShown : Plot_navigate(s, k)

SpecWidget == WidgetInit /\ [][WidgetNext]_vars

(***************************************************************************)
(* C1: the sequence built by launch_local_param yields exactly m*n         *)
(* configurations in row-major order (values2 fastest): the configuration  *)
(* at 0-based position i1*n + i2 has param1 set from values1[i1] and       *)
(* param2 set from values2[i2], and the request after the m*n-th ends the  *)
(* iteration (and none before it does).                                    *)
(***************************************************************************)
C1_RowMajorOrder ==
    LET m == Len(x_values)
        n == Len(y_values)
    IN  pos # NoPos =>
          /\ Len(yielded) <= m * n
          /\ (SimSeqExhausted(pos, values) <=> Len(yielded) = m * n)
          /\ (stops = 1 => Len(yielded) = m * n)
          /\ \A i1 \in 0..(m - 1) : \A i2 \in 0..(n - 1) :
                i1 * n + i2 < Len(yielded) =>
                  /\ yielded[i1 * n + i2 + 1][param1].v = x_values[i1 + 1]
                  /\ yielded[i1 * n + i2 + 1][param2].v = y_values[i2 + 1]

\* a 2 x 3 grid iterated to its end: six configurations, then StopIteration
C1_Witness ==
    /\ x_values = <<1, 2>>
    /\ y_values = <<2, 1, 2>>
    /\ Len(yielded) = 6
    /\ stops = 1

(***************************************************************************)
(* C2: for K >= 1 metrics and an m x n grid, the cube stored by            *)
(* SaveDataToDisk has results[k][i][j] equal to the value of metric k for  *)
(* the grid point with index i*n + j, for every k, i, j.  (The code        *)
(* reshapes the point-major data without transposing it: violated as soon  *)
(* as K >= 2 and the grid has two points.)  Stated for the local strategy, *)
(* whose job builds the vectors the claim is about.                        *)
(***************************************************************************)
C2_CubeMatchesGrid ==
    LET m == Len(x_values)
        n == Len(y_values)
    IN  (strategy = "local" /\ phase = "finished") =>
          \A k \in 1..nmetrics : \A i \in 1..m : \A j \in 1..n :
              container.results[k][i][j] = metrics_[(i - 1) * n + j][k]

(***************************************************************************)
(* C3: whenever the job of grid index i finds a checkpoint record for i,   *)
(* the backend is not executed for i, no metric is evaluated for i, the    *)
(* record of i is not rewritten, and the vector the job holds and returns  *)
(* is the stored one.                                                      *)
(***************************************************************************)
C3_CheckpointHitSkips ==
    \A i \in Idx :
        i \in hit =>
          /\ i \notin executed
          /\ i \notin evaluated
          /\ i \notin saved
          /\ pc[i] \in {"monitor", "write", "done"}
          /\ result[i] = records[i]
          /\ (pc[i] = "done" => returned[i] = records[i])

\* the second call serves index 1 from the record the first call computed
C3_Witness ==
    /\ runs = 2
    /\ 1 \in hit
    /\ pc[1] = "done"
    /\ returned[1] = EvalMetrics(jobSim[1], nmetrics, {})

(***************************************************************************)
(* C4: when the sweep is called again on the checkpoint directory of a     *)
(* call that finished, on the same grid, the backend is never executed     *)
(* (every grid point is served from its record) and the Reduction step is  *)
(* handed the same vectors, and stores the same container, as before.      *)
(***************************************************************************)
C4_SecondRunIdentical ==
    (runs >= 2 /\ prevHanded # <<>>) =>
        /\ executed = {}
        /\ evaluated = {}
        /\ \A i \in Idx : pc[i] # "idle" /\ pc[i] # "load" => i \in hit
        /\ phase # "aborted"
        /\ (phase = "finished" =>
              /\ metrics_ = prevHanded
              /\ container = SaveDataToDisk(param1, param2, x_values, y_values,
                                            nmetrics, prevHanded))

\* a second call finished after a first call in which a metric raised
C4_Witness ==
    /\ runs = 2
    /\ phase = "finished"
    /\ Len(values) = 2
    /\ nmetrics = 2
    /\ prevHanded # <<>>
    /\ metrics_[2][1] = NaN
    /\ hit = Idx

(***************************************************************************)
(* C5: a call that follows an interrupted call on the same checkpoint      *)
(* directory finds the records of all indices that had completed (S),      *)
(* never executes the backend for an index that has a record, and, when    *)
(* it finishes, has executed the backend exactly for the indices without.  *)
(***************************************************************************)
C5_ResumeSkipsCompleted ==
    runs >= 2 =>
        /\ prevCompleted \subseteq startRecords
        /\ \A i \in startRecords : records[i] # NoVec
        /\ executed \cap startRecords = {}
        /\ (phase = "finished" => executed = Idx \ startRecords)

\* index 0 completed, the backend raised for index 1; the restart runs only 1
C5_Witness ==
    /\ runs = 2
    /\ phase = "finished"
    /\ prevHanded = <<>>
    /\ prevCompleted = {0}
    /\ startRecords = {0}
    /\ executed = {1}
    /\ records[0] = EvalMetrics(jobSim[0], nmetrics, {})

(***************************************************************************)
(* C6: in the local strategy a metric that raises leaves not-a-number in   *)
(* its slot; the vector keeps one slot per requested metric, every other   *)
(* slot of this and of every other computed point has the metric's value,  *)
(* the vector is checkpointed and returned, and no metric failure leaves   *)
(* the sweep call.                                                         *)
(***************************************************************************)
C6_LocalMetricFailureIsolated ==
    strategy = "local" =>
        /\ failure # "metric"
        /\ \A i \in evaluated :
              /\ Len(result[i]) = nmetrics
              /\ \A k \in 1..nmetrics :
                    result[i][k] = IF k \in raised[i] THEN NaN ELSE MetricValue(k, jobSim[i])
              /\ pc[i] \in {"checkpoint", "monitor", "write", "done"}
              /\ (pc[i] # "checkpoint" /\ checkpoint_dir # NoDir => records[i] = result[i])
              /\ (pc[i] = "done" => returned[i] = result[i])
              /\ (phase = "finished" => metrics_[i + 1] = result[i])

\* two metrics, the second raises for grid point 2; the sweep finishes
C6_Witness ==
    /\ strategy = "local"
    /\ phase = "finished"
    /\ nmetrics = 2
    /\ Len(values) = 3
    /\ checkpoint_dir # NoDir
    /\ raised[2] = {2}
    /\ metrics_[3] = <<MetricValue(1, jobSim[2]), NaN>>
    /\ records[2] = metrics_[3]
    /\ metrics_[1] = <<MetricValue(1, jobSim[0]), MetricValue(2, jobSim[0])>>

(***************************************************************************)
(* C7: in the distributed strategy a metric that raises for a grid point   *)
(* fills its slot with not-a-number, the grid point still produces (and    *)
(* checkpoints) a vector, and the failure aborts neither the grid point    *)
(* nor the sweep.  (DaskExec's job has no handler around the metrics.)     *)
(***************************************************************************)
C7_DaskMetricFailureIsolated ==
    strategy = "dask" =>
        /\ failure # "metric"
        /\ \A i \in Idx :
              raised[i] # {} =>
                /\ pc[i] # "raised_metric"
                /\ Len(result[i]) = nmetrics
                /\ \A k \in raised[i] : result[i][k] = NaN

(***************************************************************************)
(* C8: under every interleaving and completion order of the workers, the   *)
(* sequence handed to the Reduction step holds exactly one vector per grid *)
(* index, in ascending grid-index order: position p holds what the job of  *)
(* grid index p returned, and that job ran the configuration of point p.   *)
(***************************************************************************)
C8_ResultsInGridOrder ==
    metrics_ # <<>> =>
        /\ Len(metrics_) = Len(values)
        /\ \A p \in Idx :
              /\ metrics_[p + 1] = returned[p]
              /\ jobSim[p] = SimSeqObject(template, param1, param2, values[p + 1])
              /\ returned[p] # NoVec

\* the jobs completed in the order 1, 0, 2
C8_Witness ==
    /\ phase = "finished"
    /\ Len(values) = 3
    /\ completed = <<1, 0, 2>>
    /\ nmetrics = 2

(***************************************************************************)
(* C9: with no callback and the status file initialised to 0, the counter  *)
(* in the file is the number of grid points that have completed (computed  *)
(* or served from checkpoint): one increment per point, none lost, N when  *)
(* an N-point sweep has finished; and at most one worker is inside the     *)
(* read-modify-write of the file, the one holding the lock.                *)
(***************************************************************************)
C9_SerializedCounter ==
    (strategy = "local" /\ update_progress = "none" /\ runs >= 1) =>
        /\ ParseInt(statusFile) = Cardinality({i \in Idx : pc[i] = "done"})
        /\ \A i \in Idx : reports[i] = IF pc[i] = "done" THEN 1 ELSE 0
        /\ Cardinality({i \in Idx : pc[i] = "write"}) <= 1
        /\ \A i \in Idx : pc[i] = "write" <=> lockHolder = i
        /\ (AllReturned => ParseInt(statusFile) = Len(values))

\* three points, one of them served from its checkpoint, all counted
C9_Witness ==
    /\ strategy = "local"
    /\ update_progress = "none"
    /\ Len(values) = 3
    /\ phase = "finished"
    /\ hit = {0}
    /\ statusFile = <<3>>

(***************************************************************************)
(* C10: in both strategies each completed grid point has caused exactly    *)
(* one progress report (a callback invocation or a counter increment).     *)
(* (DaskExec's job never calls monitor_execution.)                         *)
(***************************************************************************)
C10_EveryPointReportsOnce ==
    \A i \in Idx : pc[i] = "done" => reports[i] = 1

(***************************************************************************)
(* C11: a progress report that fails (the status file is missing or holds  *)
(* no integer, or the callback raises) is logged and not escalated: no     *)
(* exception of the report leaves the sweep, the job of that grid point    *)
(* has returned the vector it computed, it does not hold the lock, and     *)
(* what the Reduction step is handed is, slot by slot, the vector each job *)
(* computed from its configuration, as with reports that succeed.          *)
(***************************************************************************)
C11_ProgressFailureLogged ==
    /\ failure # "progress"
    /\ \A i \in progressErrors :
          /\ pc[i] = "done"
          /\ returned[i] = EvalMetrics(jobSim[i], nmetrics, raised[i])
          /\ reports[i] = 0
          /\ lockHolder # i
    /\ phase = "finished" =>
          \A i \in Idx : metrics_[i + 1] = EvalMetrics(jobSim[i], nmetrics, raised[i])

\* the report of grid index 0 failed, every later point ran and the sweep
\* finished, for a missing status file and for a raising callback
C11_Witness ==
    /\ phase = "finished"
    /\ Len(values) >= 2
    /\ 0 \in progressErrors
    /\ executed = Idx
    /\ container # NoContainer

(***************************************************************************)
(* C12: checkpoint init is idempotent.  A sweep call that finds the        *)
(* directory leaves its metadata and its records as they are; a call that  *)
(* finds no directory makes it and writes the metadata of the current grid *)
(* once, leaving no record; over all calls on one directory the metadata   *)
(* is written at most once, and the init of a later call changes nothing.  *)
(***************************************************************************)
C12_InitIdempotent ==
    /\ [](metaWrites <= 1 /\ (metaWrites = 1 => metaFile = GridMeta))
    /\ [][runs' # runs =>
             /\ dirExists'
             /\ records' = records
             /\ IF dirExists
                THEN UNCHANGED <<metaFile, metaWrites>>
                ELSE metaFile' = GridMeta /\ metaWrites' = metaWrites + 1
             /\ runs >= 1 => UNCHANGED <<dirExists, metaFile, metaWrites>>]_vars

\* the first call made the directory, its jobs left records in it, and the
\* init of the second call has run
C12_Witness ==
    /\ runs = 2
    /\ metaWrites = 1
    /\ metaFile = GridMeta
    /\ startRecords # {}

(***************************************************************************)
(* C13: a failure of the backend for a grid point is not caught per point. *)
(* Once the backend has raised for some index, that job returns no vector, *)
(* the Reduction step is not invoked and no container is written; in the   *)
(* local strategy the exception has left the sweep call, which is aborted. *)
(***************************************************************************)
C13_BackendFailureAborts ==
    \A i \in executed \ evaluated :
        /\ returned[i] = NoVec
        /\ reductions = 0
        /\ metrics_ = <<>>
        /\ container = NoContainer
        /\ phase # "finished"
        /\ strategy = "local" => phase = "aborted" /\ failure = "backend"

\* the backend raised for the second grid point after the first had returned
\* its vector: the local sweep is aborted with nothing reduced
C13_Witness ==
    /\ strategy = "local"
    /\ 1 \in executed \ evaluated
    /\ pc[0] = "done"
    /\ phase = "aborted"
    /\ failure = "backend"

(***************************************************************************)
(* C14: the local sweep call blocks until all grid points have completed.  *)
(* While the call runs the Reduction step has not been invoked and there   *)
(* is no container; the step is invoked at most once, only when the job of *)
(* every grid point has returned its vector; a call that finished invoked  *)
(* it exactly once, and from then on the container is what that one        *)
(* invocation wrote from the vectors the jobs returned.                    *)
(***************************************************************************)
C14_ReductionOnceAtEnd ==
    strategy = "local" =>
        /\ reductions <= 1
        /\ phase = "running" => reductions = 0
        /\ reductions = 0 => container = NoContainer
        /\ reductions = 1 =>
              /\ phase \in {"finished", "aborted"}
              /\ \A i \in Idx : pc[i] = "done" /\ returned[i] # NoVec
              /\ metrics_ = [p \in 1..Len(values) |-> returned[p - 1]]
        /\ phase = "finished" =>
              /\ reductions = 1
              /\ container = SaveDataToDisk(param1, param2, x_values, y_values,
                                            nmetrics, metrics_)

\* a local sweep over at least two points has finished after one reduction
C14_Witness ==
    /\ strategy = "local"
    /\ Len(values) >= 2
    /\ phase = "finished"
    /\ reductions = 1
    /\ container # NoContainer

(***************************************************************************)
(* C15: the distributed sweep call.  With a reduction configured the call  *)
(* does not return futures: one reduction at most is invoked, on the       *)
(* vectors of all mapped tasks once every task has returned, and the call  *)
(* has finished only after it.  With no reduction configured the call      *)
(* itself ends with the futures of all grid points handed back ("pending", *)
(* whatever the state of the tasks), and no reduction is ever invoked and  *)
(* no container written.                                                   *)
(***************************************************************************)
C15_DaskReductionOrFutures ==
    /\ [](reduction # NoReduction =>
            /\ phase # "pending"
            /\ reductions <= 1
            /\ reductions = 1 =>
                  /\ \A i \in Idx : pc[i] = "done"
                  /\ metrics_ = [p \in 1..Len(values) |-> returned[p - 1]]
            /\ phase = "finished" => reductions = 1)
    /\ [](reduction = NoReduction =>
            /\ phase \in {"idle", "pending"}
            /\ reductions = 0
            /\ metrics_ = <<>>
            /\ container = NoContainer
            /\ phase = "pending" => jobs = [p \in 1..Len(values) |-> p - 1])
    /\ [][runs' # runs =>
             phase' = IF reduction = NoReduction THEN "pending" ELSE "running"]_vars

\* no reduction configured: the call has returned the futures while a task has
\* not started and another has already returned its vector
C15_Witness ==
    /\ reduction = NoReduction
    /\ phase = "pending"
    /\ \E i \in Idx : pc[i] = "idle"
    /\ \E i \in Idx : pc[i] = "done"

(***************************************************************************)
(* C16: every yielded configuration is an independent deep clone of the    *)
(* template.  No object of the template is written by the run of a         *)
(* configuration, and every object a yielded configuration holds has been  *)
(* written by the run of that configuration alone: running one clone       *)
(* changes neither the template nor any other clone.                       *)
(***************************************************************************)
C16_ClonesIndependent ==
    /\ \A a \in ParamNames : heap[TemplateRef(a)] = 0
    /\ \A q \in 1..Len(yielded) : \A a \in ParamNames : heap[CloneRef(q, a)] \in {0, q}

(***************************************************************************)
(* C17: a fresh iterator starts at position zero whenever it is obtained,  *)
(* also after a partial or a complete iteration.  What the iterator has    *)
(* yielded since is always the configurations of grid indices 0, 1, ... in *)
(* order, one per request, never more than len(values) = m*n of them, and  *)
(* the iteration ends only when all len(values) have been yielded.         *)
(***************************************************************************)
C17_FreshIteratorRestarts ==
    /\ Len(values) = Len(x_values) * Len(y_values)
    /\ pos # NoPos =>
          /\ pos \in 0..Len(values)
          /\ Len(yielded) = pos
          /\ \A p \in 1..Len(yielded) :
                yielded[p] = SimSeqObject(template, param1, param2, values[p])
          /\ stops = 1 => pos = Len(values)

\* an iterator obtained after a complete iteration has yielded every
\* configuration again and has ended
C17_Witness ==
    /\ Len(values) >= 2
    /\ resetFrom = "complete"
    /\ Len(yielded) = Len(values)
    /\ stops = 1

(***************************************************************************)
(* C18: within one sweep each grid index is handled by exactly one worker. *)
(* No index is handed to the pool twice, a sweep that finished has handed  *)
(* out every index once, and the checkpoint record of an index is written  *)
(* at most once per sweep, by the job of that index and only when that job *)
(* found no record, whatever the order in which the workers run.           *)
(***************************************************************************)
C18_OneWorkerPerIndex ==
    /\ \A p \in 1..Len(jobs) : \A q \in 1..Len(jobs) : p # q => jobs[p] # jobs[q]
    /\ phase = "finished" => Range(jobs) = Idx
    /\ \A i \in Idx :
          /\ writes[i] <= 1
          /\ writes[i] = 1 => i \in Range(jobs) /\ i \in saved /\ i \notin hit

\* two workers are about to write the records of two indices at the same
\* time, a third record is already written
C18_Witness ==
    /\ checkpoint_dir # NoDir
    /\ Len(values) >= 3
    /\ pc[1] = "checkpoint"
    /\ pc[2] = "checkpoint"
    /\ writes[0] = 1

(***************************************************************************)
(* C19: in the container, a value of a connectivity axis whose title has   *)
(* more than 25 characters is stored as the first 25 characters of the     *)
(* title followed by "...", on the x axis and on the y axis alike; the     *)
(* values of an axis that is not a connectivity axis are stored unchanged. *)
(***************************************************************************)
C19_LongTitlesTruncated ==
    container # NoContainer =>
        LET Stored(param, vals, kept) ==
                IF param = "connectivity"
                THEN \A i \in 1..Len(vals) :
                        Len(vals[i]) > 25 =>
                            /\ Len(kept[i]) = 28
                            /\ \A c \in 1..25 : kept[i][c] = vals[i][c]
                            /\ \A c \in 26..28 : kept[i][c] = Dot
                ELSE kept = vals
        IN  /\ Stored(param1, x_values, container.x_value)
            /\ Stored(param2, y_values, container.y_value)

\* a container whose x axis is a connectivity axis with a title of more than
\* 25 characters and whose y axis has two plain values
C19_Witness ==
    /\ container # NoContainer
    /\ param1 = "connectivity"
    /\ \E i \in 1..Len(x_values) : Len(x_values[i]) > 25
    /\ Len(y_values) = 2

(***************************************************************************)
(* C20: a sweep that reuses an existing checkpoint directory neither       *)
(* compares the stored metadata with its grid nor updates it.  With the    *)
(* record of index 0 left by a sweep over another grid, the metadata stays *)
(* that of the other grid, the job of grid point 0 runs nothing and        *)
(* returns the stale vector without any error, and the stale vector is     *)
(* what the Reduction step is handed for grid point 0.                     *)
(***************************************************************************)
C20_StaleRecordReturned ==
    (runs >= 1 /\ checkpoint_dir # NoDir /\ records[0] = EarlierVec) =>
        /\ metaFile = EarlierMeta
        /\ metaFile # GridMeta
        /\ 0 \notin executed
        /\ pc[0] \in {"idle", "load", "monitor", "write", "done"}
        /\ pc[0] \in {"monitor", "write", "done"} => 0 \in hit
        /\ pc[0] = "done" => returned[0] = EarlierVec
        /\ reductions = 1 => metrics_[1] = EarlierVec

\* a sweep over two or more grid points with one metric has finished: the
\* container holds the stale vector of the other grid at grid index 0
C20_Witness ==
    /\ checkpoint_dir # NoDir
    /\ records[0] = EarlierVec
    /\ Len(values) >= 2
    /\ phase = "finished"
    /\ metrics_[1] = EarlierVec
    /\ container.results[1][1][1] = EarlierVec[1]
    /\ executed = Idx \ {0}

(***************************************************************************)
(* C21: the launcher's workflow command hands the sweep executable seven   *)
(* positional arguments (param1, param2, values1_json, values2_json,       *)
(* metric_names, output_file, thread_count), in the order in which the     *)
(* entry point reads sys.argv[1] .. sys.argv[7]: every argument the entry  *)
(* point reads is supplied, and each name is bound to its own argument.    *)
(***************************************************************************)
C21_CommandMatchesEntryPoint ==
    /\ argv # <<>> => Len(argv) - 1 = Len(EntryNames)
    /\ mainPc # "idle" =>
           /\ mainPc = "running"
           /\ Len(bound) = Len(EntryNames)
           /\ \A k \in 1..Len(bound) : bound[k].arg = bound[k].name

(***************************************************************************)
(* C22: every remote connectivity failure (no authentication token, the    *)
(* registry unreachable, the site not listed, the authentication rejected, *)
(* the home storage not found) is reported and makes submit_job return     *)
(* without raising an exception, without submitting any job and without    *)
(* downloading or changing any local file.                                 *)
(***************************************************************************)
C22_ConnectivityFailureReturns ==
    (~tokenAvail \/ ~registryUp \/ ~siteListed \/ ~authOk \/ ~homeFound) =>
        /\ hpcRaised = "none"
        /\ hpcPc \in {"connect", "search_home", "returned"}
        /\ hpcPc = "returned" => hpcErrors # {}
        /\ submitted = <<>>
        /\ downloads = 0

(***************************************************************************)
(* C23: the output file is fetched only after the workflow job has         *)
(* finished polling with a status other than FAILED, and only if the       *)
(* job's working directory lists the file name.  When the job FAILED or    *)
(* the file is not listed, nothing is downloaded and no exception is       *)
(* raised.                                                                 *)
(***************************************************************************)
C23_StageOutAfterSuccess ==
    /\ downloads > 0 =>
           /\ "workflow" \in polled
           /\ flowStatus # "FAILED"
           /\ outputListed
    /\ ("workflow" \in polled /\ (flowStatus = "FAILED" \/ ~outputListed)) =>
           /\ downloads = 0
           /\ hpcRaised = "none"
           /\ hpcPc \in {"stage_out", "returned"}

\* the workflow job succeeded, its directory lists the file, and it was fetched
C23_Witness ==
    /\ hpcPc = "returned"
    /\ "workflow" \in polled
    /\ downloads = 1

(***************************************************************************)
(* C26: the workflow job is submitted only when the remote environment was *)
(* found ready, or after an environment job was submitted, polled to its   *)
(* end and ended with a status other than FAILED.  After a FAILED          *)
(* environment job the workflow job is never submitted.  A launch submits  *)
(* at most one environment job and at most one workflow job.               *)
(***************************************************************************)
C26_WorkflowAfterEnvironment ==
    /\ (\E k \in 1..Len(submitted) : submitted[k] = "workflow") =>
           \/ EnvironmentReady(envState) /\ submitted = <<"workflow">>
           \/ /\ submitted = <<"env_prep", "workflow">>
              /\ "env_prep" \in polled
              /\ prepStatus # "FAILED"
    /\ ("env_prep" \in polled /\ prepStatus = "FAILED") => submitted = <<"env_prep">>
    /\ submitted \in {<<>>, <<"env_prep">>, <<"workflow">>, <<"env_prep", "workflow">>}

\* an environment job ended well and the workflow job followed it
C26_Witness ==
    /\ submitted = <<"env_prep", "workflow">>
    /\ "env_prep" \in polled

(***************************************************************************)
(* C24: for a computed grid point the checkpoint record is persisted       *)
(* before its progress is reported.  In every reachable state of a sweep   *)
(* that started with an empty checkpoint directory and the counter at 0,   *)
(* the progress counter is at most the number of grid indices whose record *)
(* exists, and every index that has reported progress has its record.      *)
(***************************************************************************)
C24_RecordBeforeProgress ==
    (checkpoint_dir # NoDir /\ runs >= 1 /\ startRecords = {}) =>
        LET counter == IF update_progress = "none" THEN ParseInt(statusFile)
                       ELSE progressCalls
        IN  /\ counter <= Cardinality({i \in Idx : records[i] # NoVec})
            /\ \A i \in Idx : reports[i] > 0 => records[i] # NoVec

\* three computed points, all recorded and all counted in the status file
C24_Witness ==
    /\ checkpoint_dir # NoDir
    /\ startRecords = {}
    /\ update_progress = "none"
    /\ strategy = "local"
    /\ Len(values) = 3
    /\ executed = Idx
    /\ statusFile = <<3>>
    /\ \A i \in Idx : records[i] # NoVec

(***************************************************************************)
(* C25: after every progress update the status file holds exactly the      *)
(* decimal representation of the current count, with no stale trailing     *)
(* characters.  The file is rewritten from offset 0 without truncation, so *)
(* this rests on the count never decreasing: every update writes the       *)
(* numeral of the count read plus one, which is never shorter than the     *)
(* text it overwrites.  A sweep the entry point started from "0" shows the *)
(* number of reported points.                                              *)
(***************************************************************************)
C25_StatusFileExact ==
    /\ [](IsInteger(statusFile) /\ statusFile = Str(ParseInt(statusFile)))
    /\ [][statusFile' # statusFile =>
             /\ statusFile' = Str(ParseInt(statusFile) + 1)
             /\ Len(statusFile') >= Len(statusFile)]_vars
    /\ []((fromMain /\ runs >= 1) =>
             ParseInt(statusFile) = Cardinality({i \in Idx : reports[i] > 0}))

\* two updates of a file that held "99": the numeral has gained a digit
C25_Witness ==
    /\ ~fromMain
    /\ phase = "finished"
    /\ Len(values) = 2
    /\ statusFile = Str(101)
    /\ \A i \in Idx : reports[i] = 1

(***************************************************************************)
(* C27: launch_local_param always runs with checkpoint_dir = None.  No     *)
(* checkpoint directory, metadata or record is ever created or read, and   *)
(* every call that finishes has executed the backend exactly once for each *)
(* of the m*n grid points, also when the identical sweep was run before.   *)
(***************************************************************************)
C27_LaunchNeverCheckpoints ==
    /\ checkpoint_dir = NoDir
    /\ ~dirExists
    /\ metaFile = NoMeta
    /\ metaWrites = 0
    /\ \A i \in Idx : records[i] = NoVec /\ writes[i] = 0
    /\ hit = {} /\ saved = {}
    /\ Len(jobs) = Cardinality(Range(jobs))
    /\ executed \subseteq Range(jobs)
    /\ phase = "finished" =>
           /\ executed = Idx
           /\ Len(jobs) = Len(x_values) * Len(y_values)

\* the second call for the same grid has finished after running every point again
C27_Witness ==
    /\ runs = 2
    /\ phase = "finished"
    /\ prevCompleted = Idx
    /\ Len(values) = 2
    /\ executed = Idx

C29_OneDataSet ==
    /\ tsData = NoData \/ tsData \in DataSets
    /\ (tsOp = "add" /\ tsPrev.data # NoData) =>
           /\ tsRaised = "InvalidInputException"
           /\ tsData = tsPrev.data
           /\ tsFields = tsPrev.fields
    /\ (tsOp = "add" /\ tsPrev.data = NoData) =>
           /\ tsRaised = "none"
           /\ tsData = tsPrev.offered
           /\ tsFields = [sample_freq |-> tsData.rate, ch_names |-> tsData.n, raw |-> tsData]
    /\ tsOp = "reset" => tsData = NoData

\* a widget that had taken a second data set after a reset has refused a third
C29_Witness ==
    /\ tsOp = "add"
    /\ tsRaised = "InvalidInputException"
    /\ tsPrev.offered # tsData
    /\ DOMAIN checkboxes # Channels(tsData.n)

(***************************************************************************)
(* C30: after any sequence of channel checkbox changes that leaves at      *)
(* least one channel checked, _update_ts has left the plot with picks a    *)
(* contiguous window of the checked channels in ch_order order, n_channels *)
(* the number of picks and at most no_channels, and ch_start a valid index *)
(* of ch_order that points at the first pick; _get_next_checked_channel    *)
(* has not indexed past the end of ch_order (no exception left             *)
(* _update_ts).  The plot has only been changed through the checkboxes.    *)
(***************************************************************************)
C30_PlotShowsCheckedWindow ==
    (tsOp = "checkbox" /\ ~navigated /\ \E c \in Channels(fig.nchan) : checkboxes[c]) =>
        LET filtered == Ascending({c \in Channels(fig.nchan) : checkboxes[c]})
        IN  /\ tsRaised = "none"
            /\ fig.picks # <<>>
            /\ \E k \in 1..Len(filtered) :
                   fig.picks = SubSeq(filtered, k, k + Len(fig.picks) - 1)
            /\ fig.n_channels = Len(fig.picks)
            /\ fig.n_channels <= MaxShown
            /\ fig.ch_start \in Channels(fig.nchan)
            /\ fig.ch_start = fig.picks[1]

=============================================================================
